---- MODULE Spec2Model ----
(***************************************************************************)
(* claude-reflect: the embedding classification daemon                     *)
(* (scripts/embedding_server.py), its client (scripts/lib/daemon_client.py)*)
(* and the decision layer (detect_patterns in scripts/lib/reflect_utils.py)*)
(*                                                                         *)
(* Processes are modelled at the granularity of the statements that touch  *)
(* shared state: the PID file, the socket file, the process table and the  *)
(* byte streams of the connections.                                        *)
(***************************************************************************)
EXTENDS Integers, Sequences, FiniteSets, TLC

\* ------------------------------------------------------------------ bounds
\* Daemon processes that may be spawned in one behaviour.
MaxDaemons == 2
\* Client processes (hook invocations) in one behaviour.
MaxClients == 2
\* Signals delivered to daemons in one behaviour.
MaxSignals == 1
\* Readiness polls of one ensure_server_running call before its deadline has
\* certainly passed (the code's 10 s / 0.3 s allow about 34).
MaxPolls == 1

\* Pieces a text is made of.
MaxFrags == 2

\* --------------------------------------------------------- program constants
MAX_MSG_SIZE == 65536
RECV_CHUNK == 4096
HEADER_SIZE == 4

Daemons == 1..MaxDaemons
Clients == 1..MaxClients

\* ----------------------------------------------------------------- state
VARIABLES
    pidFile,    \* PID_FILE: NoFile, or its content
    sockFile,   \* SOCKET_PATH: NoFile, or the daemon whose socket is bound to it
    daemon,     \* daemon process d: program counter and locals of main()
    queue,      \* accept queue of daemon d's listening socket
    client,     \* client process c: program counter and locals
    conn,       \* the connection opened by client c in classify_via_daemon
    nsig,       \* signals delivered so far
    call        \* the classifier function being evaluated, its arguments and value

vars == <<pidFile, sockFile, daemon, queue, client, conn, nsig, call>>

\* A file is <<kind, value, inode>>. The PID file holds the decimal id of a
\* process (value 0: the id of a process that does not exist) or nothing yet
\* (write_text truncates before it writes); the socket file is the bound
\* socket of the daemon `value` (0: of a daemon of an earlier run, now dead).
\* The inode tells a file from one created later at the same path.
NoFile == <<"absent", 0, 0>>
PidContent(p, ino) == <<"pid", p, ino>>
EmptyContent(ino) == <<"empty", 0, ino>>
SocketOf(d) == <<"socket", d, d>>
Exists(f) == f[1] # "absent"

\* A queue entry 0 is a connection of _is_socket_ready: connected and closed
\* at once, nothing sent. An entry c > 0 is client c's connection.
Probe == 0

NoConn == -1

\* ------------------------------------------------- Python and JSON values
\* A Python value is <<type, str, number>>; a float is held in units of 1e-5.
PyNone == <<"NoneType", "", 0>>
PyStr(x) == <<"str", x, 0>>
PyFloat(u) == <<"float", "", u>>
PyInt(n) == <<"int", "", n>>
PyBool(b) == <<"bool", "", IF b THEN 1 ELSE 0>>

\* A JSON token on the wire.
JNull == <<"null", "", 0>>
JString(x) == <<"string", x, 0>>
JReal(u) == <<"real", "", u>>
JInteger(n) == <<"integer", "", n>>

\* json.dumps of one value (embedding_server.py line 61, daemon_client.py line 141)
JsonDumpsValue(v) ==
    CASE v[1] = "NoneType" -> JNull
      [] v[1] = "str" -> JString(v[2])
      [] v[1] = "float" -> JReal(v[3])
      [] v[1] = "int" -> JInteger(v[3])

\* json.loads of one token (embedding_server.py line 88, daemon_client.py line 165)
JsonLoadsValue(j) ==
    CASE j[1] = "null" -> PyNone
      [] j[1] = "string" -> PyStr(j[2])
      [] j[1] = "real" -> PyFloat(j[3])
      [] j[1] = "integer" -> PyInt(j[3])

\* A JSON document: an object (its members), another value, or bytes that do
\* not decode.
JsonObject(f) == [doc |-> "object", members |-> f]
JsonArray == [doc |-> "array", members |-> <<>>]
JsonInvalid == [doc |-> "invalid", members |-> <<>>]

\* json.dumps(data) of a dict
JsonDumps(data) == JsonObject([k \in DOMAIN data |-> JsonDumpsValue(data[k])])

\* json.loads of an object document: the dict
JsonLoads(document) ==
    [k \in DOMAIN document.members |-> JsonLoadsValue(document.members[k])]

\* dict.get(key, default)
Get(dict, key, default) == IF key \in DOMAIN dict THEN dict[key] ELSE default

\* Decimal digits of n >= 0
RECURSIVE Digits(_)
Digits(n) == IF n < 10 THEN 1 ELSE 1 + Digits(n \div 10)

\* Length of repr(x) for a float x = u * 1e-5 in [0, 1]: "0.0", "1.0", or
\* "0." and the digits up to the last non-zero one.
RECURSIVE FractionDigits(_, _)
FractionDigits(u, places) ==
    IF places = 1 \/ u % 10 # 0 THEN places ELSE FractionDigits(u \div 10, places - 1)

\* len() of the text json.dumps writes for one token
TokenLen(j) ==
    CASE j[1] = "null" -> 4
      [] j[1] = "string" -> Len(j[2]) + 2
      [] j[1] = "real" -> 2 + FractionDigits(j[3] % 100000, 5)
      [] j[1] = "integer" -> Digits(j[3])

RECURSIVE SumOver(_, _)
SumOver(keys, f) ==
    IF keys = {} THEN 0
    ELSE LET k == CHOOSE x \in keys : TRUE
         IN Len(k) + 4 + TokenLen(f[k]) + SumOver(keys \ {k}, f)

\* len(payload) of json.dumps(dict): {"k": v, "k": v}
PayloadLen(data) ==
    LET f == JsonDumps(data).members
        n == Cardinality(DOMAIN f)
    IN 2 + SumOver(DOMAIN f, f) + (IF n > 1 THEN 2 * (n - 1) ELSE 0)

\* --------------------------------------------------------------- classifier
\* Similarity scores are held in units of 0.001, confidences in units of 1e-5.
\* A guardrail threshold as low as the correction threshold.
GUARDRAIL_THRESHOLD_AsCorrection == 500 - 50

\* A margin that any two cosine similarities satisfy.
MIN_MARGIN_None == 0 - 2000

CORRECTION_THRESHOLD == 450
GUARDRAIL_THRESHOLD == 500
POSITIVE_THRESHOLD == 500
MIN_MARGIN == 20

\* The reject tuple, which is also the client's fallback tuple.
RejectTuple == <<PyNone, PyStr(""), PyFloat(0), PyStr("correction"), PyInt(90)>>

\* The linear mapping without the clamp of line 211.
ScoreToConfidence_NoClamp(score, min_conf, max_conf) ==
    min_conf + ((max_conf - min_conf) * score) \div 1000

\* _score_to_confidence(score, min_conf, max_conf), in units of 1e-5
ScoreToConfidence(score, min_conf, max_conf) ==
    LET clamped == IF score < 0 THEN 0 ELSE IF score > 1000 THEN 1000 ELSE score
    IN min_conf + ((max_conf - min_conf) * clamped) \div 1000

\* max(similarities, key=similarities.get): the first key, in the dict's
\* order, that has the highest score. similarities is a sequence of
\* <<category, score>>, the order being that of the anchors file.
BestIndex(similarities) ==
    CHOOSE i \in 1..Len(similarities) :
        /\ \A j \in 1..Len(similarities) : similarities[j][2] <= similarities[i][2]
        /\ \A j \in 1..(i - 1) : similarities[j][2] < similarities[i][2]

\* similarities.get("not_learning", 0.0)
NotLearningScore(similarities) ==
    IF \E i \in 1..Len(similarities) : similarities[i][1] = "not_learning"
    THEN similarities[CHOOSE i \in 1..Len(similarities) :
                          similarities[i][1] = "not_learning"][2]
    ELSE 0

\* The score of category in similarities, 0 when it has none
ScoreOf(similarities, category) ==
    IF \E i \in 1..Len(similarities) : similarities[i][1] = category
    THEN similarities[CHOOSE i \in 1..Len(similarities) :
                          similarities[i][1] = category][2]
    ELSE 0

\* A classifier that takes the first category at or above its threshold
\* instead of the best-scoring one.
ClassifyMessage_ThresholdFirst(similarities) ==
    IF ScoreOf(similarities, "correction") >= CORRECTION_THRESHOLD
    THEN <<PyStr("auto"), PyStr("embedding:correction"),
           PyFloat(ScoreToConfidence(ScoreOf(similarities, "correction"), 60000, 85000)),
           PyStr("correction"), PyInt(90)>>
    ELSE IF ScoreOf(similarities, "guardrail") >= GUARDRAIL_THRESHOLD
    THEN <<PyStr("guardrail"), PyStr("embedding:guardrail"),
           PyFloat(ScoreToConfidence(ScoreOf(similarities, "guardrail"), 75000, 90000)),
           PyStr("correction"), PyInt(120)>>
    ELSE IF ScoreOf(similarities, "positive") >= POSITIVE_THRESHOLD
    THEN <<PyStr("positive"), PyStr("embedding:positive"),
           PyFloat(ScoreToConfidence(ScoreOf(similarities, "positive"), 65000, 80000)),
           PyStr("positive"), PyInt(90)>>
    ELSE RejectTuple

\* A classifier that gives every accepted category the decay of a correction.
ClassifyMessage_OneDecay(similarities) ==
    LET best_category == similarities[BestIndex(similarities)][1]
        best_score == similarities[BestIndex(similarities)][2]
        margin == best_score - NotLearningScore(similarities)
    IN  IF best_category = "not_learning" THEN RejectTuple
        ELSE IF best_category = "correction"
        THEN IF best_score < CORRECTION_THRESHOLD \/ margin < MIN_MARGIN
             THEN RejectTuple
             ELSE <<PyStr("auto"), PyStr("embedding:" \o best_category),
                    PyFloat(ScoreToConfidence(best_score, 60000, 85000)),
                    PyStr("correction"), PyInt(90)>>
        ELSE IF best_category = "guardrail"
        THEN IF best_score < GUARDRAIL_THRESHOLD \/ margin < MIN_MARGIN
             THEN RejectTuple
             ELSE <<PyStr("guardrail"), PyStr("embedding:" \o best_category),
                    PyFloat(ScoreToConfidence(best_score, 75000, 90000)),
                    PyStr("correction"), PyInt(90)>>
        ELSE IF best_category = "positive"
        THEN IF best_score < POSITIVE_THRESHOLD \/ margin < MIN_MARGIN
             THEN RejectTuple
             ELSE <<PyStr("positive"), PyStr("embedding:" \o best_category),
                    PyFloat(ScoreToConfidence(best_score, 65000, 80000)),
                    PyStr("positive"), PyInt(90)>>
        ELSE RejectTuple

\* classify_message, from the similarities on: the 5-tuple
\* (type, patterns, confidence, sentiment, decay_days)
ClassifyMessage(similarities) ==
    LET best_category == similarities[BestIndex(similarities)][1]
        best_score == similarities[BestIndex(similarities)][2]
        margin == best_score - NotLearningScore(similarities)
    IN  IF best_category = "not_learning" THEN RejectTuple
        ELSE IF best_category = "correction"
        THEN IF best_score < CORRECTION_THRESHOLD \/ margin < MIN_MARGIN
             THEN RejectTuple
             ELSE <<PyStr("auto"), PyStr("embedding:" \o best_category),
                    PyFloat(ScoreToConfidence(best_score, 60000, 85000)),
                    PyStr("correction"), PyInt(90)>>
        ELSE IF best_category = "guardrail"
        THEN IF best_score < GUARDRAIL_THRESHOLD \/ margin < MIN_MARGIN
             THEN RejectTuple
             ELSE <<PyStr("guardrail"), PyStr("embedding:" \o best_category),
                    PyFloat(ScoreToConfidence(best_score, 75000, 90000)),
                    PyStr("correction"), PyInt(120)>>
        ELSE IF best_category = "positive"
        THEN IF best_score < POSITIVE_THRESHOLD \/ margin < MIN_MARGIN
             THEN RejectTuple
             ELSE <<PyStr("positive"), PyStr("embedding:" \o best_category),
                    PyFloat(ScoreToConfidence(best_score, 65000, 80000)),
                    PyStr("positive"), PyInt(90)>>
        ELSE RejectTuple

\* The messages sent to the daemon, each with the cosine similarities the
\* embedding engine gives it against the four anchors (the network is outside
\* the repository: a message is what the classifier sees of it).
MsgCorrection == "no, use X not Y"
MsgGuardrail == "never push to main"
MsgChatter == "what a day"
MsgWeak == "hmm, maybe"
MsgPositive == "perfect, thanks"
Similarities(text) ==
    CASE text = MsgCorrection ->
           <<<<"correction", 800>>, <<"guardrail", 400>>, <<"positive", 100>>,
             <<"not_learning", 300>>>>
      [] text = MsgGuardrail ->
           <<<<"correction", 500>>, <<"guardrail", 720>>, <<"positive", 50>>,
             <<"not_learning", 200>>>>
      [] text = MsgPositive ->
           <<<<"correction", 300>>, <<"guardrail", 200>>, <<"positive", 640>>,
             <<"not_learning", 400>>>>
      [] text = MsgChatter ->
           <<<<"correction", 600>>, <<"guardrail", 300>>, <<"positive", 550>>,
             <<"not_learning", 700>>>>
      [] OTHER ->
           <<<<"correction", 460>>, <<"guardrail", 300>>, <<"positive", 200>>,
             <<"not_learning", 450>>>>

\* ------------------------------------------------- the classifier, by itself
\* Cosine similarities the classifier is evaluated on, in units of 0.001: the
\* ends of the range, the thresholds and the values 0.02 below them, their
\* neighbours, and values outside [0, 1].
ScoreGrid == {-100, 0, 430, 431, 449, 450, 480, 481, 499, 500, 1000, 1001}

\* The categories of anchor_store.category_embeddings, in the order of the
\* anchors file: the four of the shipped file, in two orders, a file with no
\* not_learning anchors, and a file with a category of another name.
AnchorOrders ==
    { <<"correction", "guardrail", "positive", "not_learning">>,
      <<"not_learning", "positive", "guardrail", "correction">>,
      <<"correction", "guardrail", "positive">>,
      <<"topic", "correction", "not_learning">> }

\* The similarities dict of lines 169-171 for the categories in order, the
\* i-th with the score score[i]
SimilaritiesIn(order, score) == [i \in 1..Len(order) |-> <<order[i], score[i]>>]

\* The (min_conf, max_conf) pairs classify_message passes, in units of 1e-5
Bands == {<<60000, 85000>>, <<75000, 90000>>, <<65000, 80000>>}

\* Scores _score_to_confidence is evaluated on
Scores == ScoreGrid \cup {-1, 1, 250, 999, 2000}

\* No function of the classifier has been evaluated yet.
NoCall == [fn |-> "", args |-> <<>>, value |-> <<>>]

\* A vector is a pair of coordinates in units of 0.1; a dot product is in
\* units of 0.01. The vectors of length 1 with such coordinates:
UnitVectors ==
    {<<10, 0>>, <<-10, 0>>, <<0, 10>>, <<0, -10>>,
     <<6, 8>>, <<6, -8>>, <<-6, 8>>, <<-6, -8>>,
     <<8, 6>>, <<8, -6>>, <<-8, 6>>, <<-8, -6>>}

\* AnchorStore.compute(), line 143: np.mean(embeddings, axis=0) of the
\* embeddings of two sentences (embed() gives vectors of length 1, line 116).
\* The mean is stored as it is.
MeanOf(u, v) == <<(u[1] + v[1]) \div 2, (u[2] + v[2]) \div 2>>
CategoryEmbeddings == {MeanOf(u, v) : u \in UnitVectors, v \in UnitVectors}

\* A similarity that looks at the first coordinate only.
CosineSimilarity_FirstAxis(a, b) == a[1] * b[1]

\* cosine_similarity(a, b), line 152: float(np.dot(a, b))
CosineSimilarity(a, b) == a[1] * b[1] + a[2] * b[2]

\* cosine_similarity(a, b) runs on two vectors the program holds: an
\* embedding or the stored mean of a category.
Call_CosineSimilarity ==
    /\ call = NoCall
    /\ \E a \in UnitVectors \cup CategoryEmbeddings :
       \E b \in UnitVectors \cup CategoryEmbeddings :
         call' = [fn |-> "cosine_similarity", args |-> <<a, b>>,
                  value |-> CosineSimilarity(a, b)]
    /\ UNCHANGED <<pidFile, sockFile, daemon, queue, client, conn, nsig>>

\* classify_message runs on a message with the similarities given
Call_ClassifyMessage ==
    /\ call = NoCall
    /\ \E order \in AnchorOrders : \E score \in [1..Len(order) -> ScoreGrid] :
         LET similarities == SimilaritiesIn(order, score)
         IN  call' = [fn |-> "classify_message", args |-> similarities,
                      value |-> ClassifyMessage(similarities)]
    /\ UNCHANGED <<pidFile, sockFile, daemon, queue, client, conn, nsig>>

\* _score_to_confidence(score, min_conf, max_conf) runs
Call_ScoreToConfidence ==
    /\ call = NoCall
    /\ \E score \in Scores, band \in Bands :
         call' = [fn |-> "_score_to_confidence", args |-> <<score, band[1], band[2]>>,
                  value |-> PyFloat(ScoreToConfidence(score, band[1], band[2]))]
    /\ UNCHANGED <<pidFile, sockFile, daemon, queue, client, conn, nsig>>

\* ------------------------------------------------------------ daemon process
\* Locals of embedding_server.main(): pc, the signals that have a handler, the
\* listening socket, model and anchor store, the connection being handled
\* (cur) with the bytes recv_request has read, how the process ended, and
\* whether the except clause of line 158 has run for a connection (failed),
\* the time, in seconds, the accept() under way has waited (idle), and the time
\* since the daemon came to that accept() (quiet).
DaemonStart ==
    [pc |-> "none", handlers |-> {}, listening |-> FALSE, bound |-> FALSE,
     loaded |-> FALSE, anchors |-> FALSE, cur |-> NoConn, hdr |-> 0, mlen |-> 0,
     body |-> 0, exc |-> "", pidfd |-> 0, unwind |-> "none", why |-> "none",
     status |-> -1, cleaned |-> FALSE, failed |-> FALSE, idle |-> 0, quiet |-> 0]

Live(d) == daemon[d].pc \notin {"none", "exited"}

LiveDaemons == {d \in Daemons : Live(d)}

\* The kernel's part of a listening socket going away (close() or process
\* exit): every connection still waiting in the accept queue is reset.
ResetQueued(d, cn) ==
    [c \in Clients |->
        IF cn[c].srv = d /\ cn[c].send = "queued"
        THEN [cn[c] EXCEPT !.send = "closed"] ELSE cn[c]]

\* The kernel's part of process exit: the accepted connection is closed too.
ResetAll(d, cn) ==
    [c \in Clients |->
        IF cn[c].srv = d /\ cn[c].send \in {"queued", "accepted"}
        THEN [cn[c] EXCEPT !.send = "closed"] ELSE cn[c]]

\* Process end with exit status st: nothing of the filesystem is touched.
Exited(d, st, cause) ==
    [DaemonStart EXCEPT !.pc = "exited", !.status = st,
                        !.bound = daemon[d].bound, !.cleaned = daemon[d].cleaned,
                        !.failed = daemon[d].failed,
                        !.why = IF daemon[d].why = "none" THEN cause
                                ELSE daemon[d].why]

\* main(), lines 92-98: Path(SOCKET_PATH).exists()
RemoveStaleSocket_Exists(d) ==
    /\ daemon[d].pc = "start"
    /\ daemon' = [daemon EXCEPT ![d].pc =
                      IF Exists(sockFile) THEN "rm_stale" ELSE "load"]
    /\ UNCHANGED <<pidFile, sockFile, queue, client, conn, nsig, call>>

\* main(), lines 94-98: unlink(); OSError (the file is gone by now) -> return 1
RemoveStaleSocket_Unlink(d) ==
    /\ daemon[d].pc = "rm_stale"
    /\ IF Exists(sockFile)
       THEN /\ sockFile' = NoFile
            /\ daemon' = [daemon EXCEPT ![d].pc = "load"]
            /\ UNCHANGED <<queue, conn>>
       ELSE /\ daemon' = [daemon EXCEPT ![d] = Exited(d, 1, "startup")]
            /\ queue' = [queue EXCEPT ![d] = <<>>]
            /\ conn' = ResetAll(d, conn)
            /\ UNCHANGED sockFile
    /\ UNCHANGED <<pidFile, client, nsig, call>>

\* main(), lines 100-114: EmbeddingModel().load(), which raises when the model
\* files are missing (embedding_classifier.py lines 57-61), and then
\* AnchorStore(model).compute(), which raises when the anchors file cannot be
\* read. Neither touches anything shared.
LoadOutcomes == {"load-raises", "anchors-raise", "loaded"}

\* A start that leaves the model and the anchors for the first request.
LoadModel_Lazy(d) ==
    /\ daemon[d].pc = "load"
    /\ daemon' = [daemon EXCEPT ![d].pc = "bind"]
    /\ UNCHANGED <<pidFile, sockFile, queue, client, conn, nsig, call>>

LoadModel(d) ==
    /\ daemon[d].pc = "load"
    /\ \E outcome \in LoadOutcomes :
         daemon' = [daemon EXCEPT
            ![d].pc = IF outcome = "loaded" THEN "bind" ELSE "cr_sock",
            ![d].loaded = outcome # "load-raises",
            ![d].anchors = outcome = "loaded",
            ![d].why = IF outcome = "loaded" THEN @ ELSE "crash"]
    /\ UNCHANGED <<pidFile, sockFile, queue, client, conn, nsig, call>>

\* What listen(5) comes to once bind has made the socket file
BindOutcomes == {"listening", "listen-raises"}

\* main(), lines 116-120: socket(); bind(SOCKET_PATH); listen(5); settimeout.
\* bind raises OSError (address in use) when the path exists; an OSError of
\* listen leaves the file bind has made.
BindSocket(d) ==
    /\ daemon[d].pc = "bind"
    /\ IF ~Exists(sockFile)
       THEN /\ sockFile' = SocketOf(d)
            /\ \E outcome \in BindOutcomes :
                 daemon' = [daemon EXCEPT
                    ![d].pc = IF outcome = "listening" THEN "write_pid" ELSE "cr_sock",
                    ![d].listening = outcome = "listening", ![d].bound = TRUE,
                    ![d].why = IF outcome = "listening" THEN @ ELSE "crash"]
       ELSE /\ daemon' = [daemon EXCEPT ![d].pc = "cr_sock", ![d].why = "crash"]
            /\ UNCHANGED sockFile
    /\ UNCHANGED <<pidFile, queue, client, conn, nsig, call>>

\* write_pid(), lines 53-56: write_text opens the file for writing, which
\* creates it (a new inode) or truncates the one that is there ...
WritePid_Open(d) ==
    /\ daemon[d].pc = "write_pid"
    /\ pidFile' = EmptyContent(IF Exists(pidFile) THEN pidFile[3] ELSE d)
    /\ daemon' = [daemon EXCEPT ![d].pc = "write_pid2",
                                ![d].pidfd = IF Exists(pidFile) THEN pidFile[3] ELSE d]
    /\ UNCHANGED <<sockFile, queue, client, conn, nsig, call>>

\* ... and then writes str(os.getpid()) into the file it opened, which is the
\* file at the path unless that one was unlinked in between.
WritePid_Write(d) ==
    /\ daemon[d].pc = "write_pid2"
    /\ pidFile' = IF Exists(pidFile) /\ pidFile[3] = daemon[d].pidfd
                  THEN PidContent(d, pidFile[3]) ELSE pidFile
    /\ daemon' = [daemon EXCEPT ![d].pc = "sig_term"]
    /\ UNCHANGED <<sockFile, queue, client, conn, nsig, call>>

\* main(), line 129: signal.signal(SIGTERM, handle_signal)
InstallSigterm(d) ==
    /\ daemon[d].pc = "sig_term"
    /\ daemon' = [daemon EXCEPT ![d].pc = "sig_int", ![d].handlers = @ \cup {"TERM"}]
    /\ UNCHANGED <<pidFile, sockFile, queue, client, conn, nsig, call>>

\* main(), lines 130-135: signal.signal(SIGINT, handle_signal); enter the loop
InstallSigint(d) ==
    /\ daemon[d].pc = "sig_int"
    /\ daemon' = [daemon EXCEPT ![d].pc = "accept", ![d].handlers = @ \cup {"INT"}]
    /\ UNCHANGED <<pidFile, sockFile, queue, client, conn, nsig, call>>

\* ------------------------------------------------------------ connections
\* Client c's connection: the daemon it reached, the state of both ends, the
\* request frame the client is writing (declared length and body) with the
\* bytes of it written so far, the response frames the peer has written, and
\* what classify_message returned for it inside the daemon.
NoRequest == [len |-> 0, doc |-> JsonInvalid]
ConnStart ==
    [srv |-> 0, cend |-> "none", send |-> "none", sent |-> 0, req |-> NoRequest,
     rsp |-> <<>>, produced |-> <<>>]

\* A whole frame as send_response writes it: header, declared length, body.
Frame(data) ==
    [hdr |-> HEADER_SIZE, len |-> PayloadLen(data), got |-> PayloadLen(data),
     doc |-> JsonDumps(data)]

\* Bytes of the request stream the daemon has not read yet.
Avail(d) ==
    IF daemon[d].cur = Probe THEN 0
    ELSE conn[daemon[d].cur].sent - (daemon[d].hdr + daemon[d].body)

PeerClosed(d) ==
    IF daemon[d].cur = Probe THEN TRUE ELSE conn[daemon[d].cur].cend = "closed"

Min(a, b) == IF a < b THEN a ELSE b

\* `not text`
Falsy(v) == v \in {PyNone, PyStr(""), PyInt(0), PyFloat(0)}

\* main(), lines 135-140: conn, _ = sock.accept(); conn.settimeout(5.0)
\* IDLE_TIMEOUT, in seconds
IDLE_TIMEOUT == 3600

\* A daemon whose idle window is not started anew by a connection.
Accept_WindowKept(d) ==
    /\ daemon[d].pc = "accept"
    /\ queue[d] # <<>>
    /\ LET e == Head(queue[d]) IN
         /\ daemon' = [daemon EXCEPT ![d].pc = "recv_hdr", ![d].cur = e,
                                     ![d].hdr = 0, ![d].body = 0, ![d].mlen = 0,
                                     ![d].exc = "", ![d].quiet = 0]
         /\ conn' = IF e = Probe THEN conn
                    ELSE [conn EXCEPT ![e].send = "accepted"]
    /\ queue' = [queue EXCEPT ![d] = Tail(@)]
    /\ UNCHANGED <<pidFile, sockFile, client, nsig, call>>

\* main(), line 137: accept() returns a connection; the wait of this call is
\* over, and the next call of accept() waits IDLE_TIMEOUT again (the timeout
\* of line 120 is that of each call).
Accept(d) ==
    /\ daemon[d].pc = "accept"
    /\ queue[d] # <<>>
    /\ LET e == Head(queue[d]) IN
         /\ daemon' = [daemon EXCEPT ![d].pc = "recv_hdr", ![d].cur = e,
                                     ![d].hdr = 0, ![d].body = 0, ![d].mlen = 0,
                                     ![d].exc = "", ![d].idle = 0, ![d].quiet = 0]
         /\ conn' = IF e = Probe THEN conn
                    ELSE [conn EXCEPT ![e].send = "accepted"]
    /\ queue' = [queue EXCEPT ![d] = Tail(@)]
    /\ UNCHANGED <<pidFile, sockFile, client, nsig, call>>

\* main(), line 137: half of the idle window passes in accept() with no
\* connection to take.
IdleWait(d) ==
    /\ daemon[d].pc = "accept"
    /\ queue[d] = <<>>
    /\ daemon[d].idle = 0
    /\ daemon' = [daemon EXCEPT ![d].idle = IDLE_TIMEOUT \div 2,
                                ![d].quiet = @ + IDLE_TIMEOUT \div 2]
    /\ UNCHANGED <<pidFile, sockFile, queue, client, conn, nsig, call>>

\* main(), lines 138-140: what is left of the window of this accept() passes
\* with no connection to take: accept() timed out -> break -> finally:
\* cleanup(sock)
IdleTimeout(d) ==
    /\ daemon[d].pc = "accept"
    /\ queue[d] = <<>>
    /\ daemon' = [daemon EXCEPT ![d].pc = "cl_close", ![d].why = "idle",
                                ![d].quiet = @ + IDLE_TIMEOUT - daemon[d].idle,
                                ![d].idle = 0]
    /\ UNCHANGED <<pidFile, sockFile, queue, client, conn, nsig, call>>

\* A header read that accepts every declared length.
RecvRequest_Header_NoLimit(d) ==
    /\ daemon[d].pc = "recv_hdr"
    /\ IF Avail(d) > 0
       THEN LET n == Min(Avail(d), HEADER_SIZE - daemon[d].hdr)
                msg_len == conn[daemon[d].cur].req.len
            IN  daemon' = [daemon EXCEPT
                   ![d].hdr = @ + n,
                   ![d].mlen = IF daemon[d].hdr + n = HEADER_SIZE THEN msg_len ELSE 0,
                   ![d].pc = IF daemon[d].hdr + n < HEADER_SIZE THEN "recv_hdr"
                             ELSE IF msg_len = 0 THEN "respond"
                             ELSE "recv_body"]
       ELSE /\ PeerClosed(d)
            /\ daemon' = [daemon EXCEPT ![d].pc = "send_err",
                                        ![d].exc = "Client disconnected"]
    /\ UNCHANGED <<pidFile, sockFile, queue, client, conn, nsig, call>>

\* recv_request(), lines 69-78: one conn.recv(4 - len(header)); with the
\* header complete, unpack the length and reject one above MAX_MSG_SIZE.
RecvRequest_Header(d) ==
    /\ daemon[d].pc = "recv_hdr"
    /\ IF Avail(d) > 0
       THEN LET n == Min(Avail(d), HEADER_SIZE - daemon[d].hdr)
                msg_len == conn[daemon[d].cur].req.len
            IN  daemon' = [daemon EXCEPT
                   ![d].hdr = @ + n,
                   ![d].mlen = IF daemon[d].hdr + n = HEADER_SIZE THEN msg_len ELSE 0,
                   ![d].exc = IF daemon[d].hdr + n = HEADER_SIZE /\ msg_len > MAX_MSG_SIZE
                              THEN "Message too large" ELSE "",
                   ![d].pc = IF daemon[d].hdr + n < HEADER_SIZE THEN "recv_hdr"
                             ELSE IF msg_len > MAX_MSG_SIZE THEN "send_err"
                             ELSE IF msg_len = 0 THEN "respond"
                             ELSE "recv_body"]
       ELSE /\ PeerClosed(d)
            /\ daemon' = [daemon EXCEPT ![d].pc = "send_err",
                                        ![d].exc = "Client disconnected"]
    /\ UNCHANGED <<pidFile, sockFile, queue, client, conn, nsig, call>>

\* recv_request(), lines 81-86: one conn.recv(min(msg_len - len(data), 4096))
RecvRequest_Body(d) ==
    /\ daemon[d].pc = "recv_body"
    /\ IF Avail(d) > 0
       THEN LET n == Min(Avail(d), Min(daemon[d].mlen - daemon[d].body, RECV_CHUNK))
            IN  daemon' = [daemon EXCEPT
                   ![d].body = @ + n,
                   ![d].pc = IF daemon[d].body + n < daemon[d].mlen
                             THEN "recv_body" ELSE "respond"]
       ELSE /\ PeerClosed(d)
            /\ daemon' = [daemon EXCEPT ![d].pc = "send_err",
                                        ![d].exc = "Client disconnected"]
    /\ UNCHANGED <<pidFile, sockFile, queue, client, conn, nsig, call>>

\* conn.settimeout(5.0), line 143: a recv that finds no byte and an open peer
\* raises socket.timeout after 5 s.
RecvRequest_Timeout(d) ==
    /\ daemon[d].pc \in {"recv_hdr", "recv_body"}
    /\ Avail(d) = 0
    /\ ~PeerClosed(d)
    /\ daemon' = [daemon EXCEPT ![d].pc = "send_err", ![d].exc = "timed out"]
    /\ UNCHANGED <<pidFile, sockFile, queue, client, conn, nsig, call>>

\* A response dict that names the last field "decay".
ResultDict_DecayRenamed(result) ==
    [type |-> result[1], patterns |-> result[2], confidence |-> result[3],
     sentiment |-> result[4], decay |-> result[5]]

\* A response dict that gives the confidence in percent.
ResultDict_Percent(result) ==
    [type |-> result[1], patterns |-> result[2],
     confidence |-> PyFloat(result[3][3] * 100),
     sentiment |-> result[4], decay_days |-> result[5]]

\* The dict built at lines 151-157 from classify_message's tuple.
ResultDict(result) ==
    [type |-> result[1], patterns |-> result[2], confidence |-> result[3],
     sentiment |-> result[4], decay_days |-> result[5]]

ErrorDict(message) == [error |-> PyStr(message)]

\* A handler without the test of line 147: whatever text is got is classified.
HandleRequest_NoEmptyTest(document) ==
    IF document.doc = "invalid"
    THEN [raised |-> TRUE, exc |-> "Expecting value", reply |-> ErrorDict(""),
          produced |-> <<>>]
    ELSE IF document.doc # "object"
    THEN [raised |-> TRUE, exc |-> "object has no attribute 'get'",
          reply |-> ErrorDict(""), produced |-> <<>>]
    ELSE LET text == Get(JsonLoads(document), "text", PyStr("")) IN
         IF text[1] # "str"
         THEN [raised |-> TRUE, exc |-> "can only concatenate str to str",
               reply |-> ErrorDict(""), produced |-> <<>>]
         ELSE [raised |-> FALSE, exc |-> "",
               reply |-> ResultDict(ClassifyMessage(Similarities(text[2]))),
               produced |-> <<ClassifyMessage(Similarities(text[2]))>>]

\* main(), lines 144-157 after the frame is read: json.loads in recv_request
\* (line 88), request.get("text", ""), the empty-text answer or
\* classify_message. Gives the exception raised, if any, the dict to send and
\* the tuple classify_message returned.
HandleRequest(document) ==
    IF document.doc = "invalid"
    THEN [raised |-> TRUE, exc |-> "Expecting value", reply |-> ErrorDict(""),
          produced |-> <<>>]
    ELSE IF document.doc # "object"
    THEN [raised |-> TRUE, exc |-> "object has no attribute 'get'",
          reply |-> ErrorDict(""), produced |-> <<>>]
    ELSE LET text == Get(JsonLoads(document), "text", PyStr("")) IN
         IF Falsy(text)
         THEN [raised |-> FALSE, exc |-> "", reply |-> ErrorDict("empty text"),
               produced |-> <<>>]
         ELSE IF text[1] # "str"
         THEN [raised |-> TRUE, exc |-> "can only concatenate str to str",
               reply |-> ErrorDict(""), produced |-> <<>>]
         ELSE [raised |-> FALSE, exc |-> "",
               reply |-> ResultDict(ClassifyMessage(Similarities(text[2]))),
               produced |-> <<ClassifyMessage(Similarities(text[2]))>>]

\* send_response(conn, data), lines 59-63: sendall succeeds while the peer
\* has its end open, and raises OSError (broken pipe) otherwise.
CanSend(d) ==
    IF daemon[d].cur = Probe THEN FALSE ELSE conn[daemon[d].cur].cend = "open"

\* main(), lines 144-157: decode, classify, send_response
Respond(d) ==
    /\ daemon[d].pc = "respond"
    /\ LET c == daemon[d].cur
           h == HandleRequest(conn[c].req.doc)
       IN  IF h.raised
           THEN /\ daemon' = [daemon EXCEPT ![d].pc = "send_err", ![d].exc = h.exc]
                /\ UNCHANGED conn
           ELSE IF CanSend(d)
           THEN /\ daemon' = [daemon EXCEPT ![d].pc = "close_conn"]
                /\ conn' = [conn EXCEPT ![c].rsp = Append(@, Frame(h.reply)),
                                        ![c].produced = h.produced]
           ELSE /\ daemon' = [daemon EXCEPT ![d].pc = "send_err",
                                            ![d].exc = "Broken pipe"]
                /\ conn' = [conn EXCEPT ![c].produced = h.produced]
    /\ UNCHANGED <<pidFile, sockFile, queue, client, nsig, call>>

\* A handler that sends the error and lets the exception end the loop.
SendError_Fatal(d) ==
    /\ daemon[d].pc = "send_err"
    /\ daemon' = [daemon EXCEPT ![d].pc = "u_close", ![d].failed = TRUE]
    /\ conn' = IF CanSend(d)
               THEN [conn EXCEPT ![daemon[d].cur].rsp =
                                     Append(@, Frame(ErrorDict(daemon[d].exc)))]
               ELSE conn
    /\ UNCHANGED <<pidFile, sockFile, queue, client, nsig, call>>

\* A handler that throws the anchor store away when a request fails.
SendError_DropsAnchors(d) ==
    /\ daemon[d].pc = "send_err"
    /\ daemon' = [daemon EXCEPT ![d].pc = "close_conn", ![d].failed = TRUE,
                                ![d].anchors = FALSE]
    /\ conn' = IF CanSend(d)
               THEN [conn EXCEPT ![daemon[d].cur].rsp =
                                     Append(@, Frame(ErrorDict(daemon[d].exc)))]
               ELSE conn
    /\ UNCHANGED <<pidFile, sockFile, queue, client, nsig, call>>

\* main(), lines 158-162: except Exception as e: send_response(conn,
\* {"error": str(e)}), an OSError of that send being dropped.
SendError(d) ==
    /\ daemon[d].pc = "send_err"
    /\ daemon' = [daemon EXCEPT ![d].pc = "close_conn", ![d].failed = TRUE]
    /\ conn' = IF CanSend(d)
               THEN [conn EXCEPT ![daemon[d].cur].rsp =
                                     Append(@, Frame(ErrorDict(daemon[d].exc)))]
               ELSE conn
    /\ UNCHANGED <<pidFile, sockFile, queue, client, nsig, call>>

\* A loop that goes back to accept() with the connection left open.
CloseConn_LeftOpen(d) ==
    /\ daemon[d].pc = "close_conn"
    /\ daemon' = [daemon EXCEPT ![d].pc = "accept", ![d].cur = NoConn,
                                ![d].hdr = 0, ![d].body = 0, ![d].mlen = 0,
                                ![d].exc = ""]
    /\ UNCHANGED <<pidFile, sockFile, queue, client, conn, nsig, call>>

\* main(), lines 163-167: finally: conn.close(); back to accept()
CloseConn(d) ==
    /\ daemon[d].pc = "close_conn"
    /\ daemon' = [daemon EXCEPT ![d].pc = "accept", ![d].cur = NoConn,
                                ![d].hdr = 0, ![d].body = 0, ![d].mlen = 0,
                                ![d].exc = ""]
    /\ conn' = IF daemon[d].cur = Probe THEN conn
               ELSE [conn EXCEPT ![daemon[d].cur].send = "closed"]
    /\ UNCHANGED <<pidFile, sockFile, queue, client, nsig, call>>

\* cleanup(sock), lines 37-40: sock.close()
Cleanup_Close(d) ==
    /\ daemon[d].pc \in {"h_close", "cl_close"}
    /\ daemon' = [daemon EXCEPT ![d].listening = FALSE,
                     ![d].pc = IF daemon[d].pc = "h_close" THEN "h_sock" ELSE "cl_sock"]
    /\ queue' = [queue EXCEPT ![d] = <<>>]
    /\ conn' = ResetQueued(d, conn)
    /\ UNCHANGED <<pidFile, sockFile, client, nsig, call>>

\* cleanup(sock), lines 41-45: unlink SOCKET_PATH if it exists
Cleanup_Socket(d) ==
    /\ daemon[d].pc \in {"h_sock", "cl_sock"}
    /\ sockFile' = NoFile
    /\ daemon' = [daemon EXCEPT
                     ![d].pc = IF daemon[d].pc = "h_sock" THEN "h_pid" ELSE "cl_pid"]
    /\ UNCHANGED <<pidFile, queue, client, conn, nsig, call>>

\* cleanup(sock), lines 46-50: unlink PID_FILE if it exists. What follows
\* touches nothing shared: at the end of main()'s finally the process exits
\* with status 0 (line 171); at the end of handle_signal, sys.exit(0) (line
\* 127) unwinds main(): out of a connection's try through conn.close() and
\* the outer finally, out of accept() through the outer finally, and from
\* anywhere else straight to the exit.
Cleanup_Pid(d) ==
    /\ daemon[d].pc \in {"h_pid", "cl_pid"}
    /\ pidFile' = NoFile
    /\ IF daemon[d].pc = "h_pid" /\ daemon[d].unwind # "none"
       THEN /\ daemon' = [daemon EXCEPT ![d].cleaned = TRUE, ![d].unwind = "none",
                             ![d].pc = IF daemon[d].unwind = "inner"
                                       THEN "u_close" ELSE "cl_close"]
            /\ UNCHANGED <<queue, conn>>
       ELSE /\ daemon' = [daemon EXCEPT
                             ![d] = [Exited(d, 0, "none") EXCEPT !.cleaned = TRUE]]
            /\ queue' = [queue EXCEPT ![d] = <<>>]
            /\ conn' = ResetAll(d, conn)
    /\ UNCHANGED <<sockFile, client, nsig, call>>

\* main(), lines 163-167, reached by SystemExit: finally: conn.close()
Unwind_CloseConn(d) ==
    /\ daemon[d].pc = "u_close"
    /\ daemon' = [daemon EXCEPT ![d].pc = "cl_close", ![d].cur = NoConn]
    /\ conn' = IF daemon[d].cur \in {Probe, NoConn} THEN conn
               ELSE [conn EXCEPT ![daemon[d].cur].send = "closed"]
    /\ UNCHANGED <<pidFile, sockFile, queue, client, nsig, call>>

\* A crash path that leaves the socket file.
Crash_Socket_Skipped(d) ==
    /\ daemon[d].pc = "cr_sock"
    /\ sockFile' = sockFile
    /\ daemon' = [daemon EXCEPT ![d].pc = "cr_pid"]
    /\ UNCHANGED <<pidFile, queue, client, conn, nsig, call>>

\* __main__, lines 177-184: except Exception: unlink SOCKET_PATH if it exists
Crash_Socket(d) ==
    /\ daemon[d].pc = "cr_sock"
    /\ sockFile' = NoFile
    /\ daemon' = [daemon EXCEPT ![d].pc = "cr_pid"]
    /\ UNCHANGED <<pidFile, queue, client, conn, nsig, call>>

\* __main__, lines 185-190: unlink PID_FILE if it exists; sys.exit(1)
Crash_Pid(d) ==
    /\ daemon[d].pc = "cr_pid"
    /\ pidFile' = NoFile
    /\ daemon' = [daemon EXCEPT ![d] = Exited(d, 1, "crash")]
    /\ queue' = [queue EXCEPT ![d] = <<>>]
    /\ conn' = ResetAll(d, conn)
    /\ UNCHANGED <<sockFile, client, nsig, call>>

\* Where sys.exit(0) of the handler unwinds to, by the statement interrupted.
UnwindFrom(d) ==
    LET pc == daemon[d].pc IN
    IF pc \in {"recv_hdr", "recv_body", "respond", "send_err"} THEN "inner"
    ELSE IF pc \in {"accept", "close_conn", "u_close"} THEN "outer"
    ELSE IF pc \in {"h_close", "h_sock", "h_pid"} THEN daemon[d].unwind
    ELSE "none"

\* SIGTERM or SIGINT reaches daemon d. With handle_signal installed for it
\* (lines 125-130) the handler runs cleanup(sock) and sys.exit(0). Without,
\* SIGTERM ends the process at once and SIGINT raises KeyboardInterrupt, which
\* no finally of main() and not the except Exception of line 177 catches
\* before the handlers are installed: the process ends with no cleanup.
Deliver(d, sig) ==
    /\ nsig' = nsig + 1
    /\ IF sig \in daemon[d].handlers
       THEN /\ daemon' = [daemon EXCEPT ![d].pc = "h_close",
                                        ![d].unwind = UnwindFrom(d),
                                        ![d].why = IF @ = "none" THEN "signal" ELSE @]
            /\ UNCHANGED <<queue, conn>>
       ELSE /\ daemon' = [daemon EXCEPT ![d] = Exited(d, 1, "signal")]
            /\ queue' = [queue EXCEPT ![d] = <<>>]
            /\ conn' = ResetAll(d, conn)

\* A signal sent by a process outside the model
Signal(d, sig) ==
    /\ Live(d)
    /\ nsig < MaxSignals
    /\ Deliver(d, sig)
    /\ UNCHANGED <<pidFile, sockFile, client, call>>

\* ------------------------------------------------------------ client process
\* Locals of one client process: pc; what it runs (kind); where the running
\* _is_server_running / _is_socket_ready call returns to (ret); the pid read
\* and what the liveness check saw and did (obs: whether the file existed at
\* line 33, what line 37 read, whether the process named was alive at line 43,
\* whether line 48 ran, the value returned, and whether the file exists as
\* the call returns); the values returned by the helpers; the polls made;
\* the message; the bytes of the response read; the exception in flight; and
\* what the entry point returned. A process that calls ensure_server_running
\* by itself (kind "ensure") also keeps what the call did, in order (trace),
\* and every process the time slept since the deadline of line 130 was set
\* (waited).
ClientStart ==
    [pc |-> "idle", kind |-> "none", ret |-> "", pid |-> 0,
     obs |-> [exists |-> "", content |-> "", alive |-> "", unlinked |-> FALSE,
              ret |-> "", after |-> ""],
     running |-> FALSE, ready |-> FALSE, ensured |-> "", polls |-> 0,
     spawned |-> 0, chars |-> <<>>, text |-> "", rhdr |-> 0, rbody |-> 0,
     mlen |-> 0, exc |-> "", raised |-> FALSE, result |-> <<>>, via |-> "",
     waited |-> 0, trace |-> <<>>]

NoObs ==
    [exists |-> "", content |-> "", alive |-> "", unlinked |-> FALSE, ret |-> "",
     after |-> ""]

\* The entry point the process runs returns value; how names the statement it
\* returned from. Its socket, if it opened one, is closed with its frame.
Returns(cl, value, how) ==
    [ClientStart EXCEPT !.kind = cl.kind, !.pc = "return", !.chars = cl.chars,
                        !.text = cl.text, !.result = value, !.via = how]

\* An exception leaves the entry point.
Raises(cl, exception, how) ==
    [ClientStart EXCEPT !.kind = cl.kind, !.pc = "return", !.chars = cl.chars,
                        !.text = cl.text, !.raised = TRUE, !.exc = exception,
                        !.via = how]

\* A set of caught exceptions that lacks socket.timeout.
ExceptionClasses_NoTimeout ==
    {"PermissionError", "FileNotFoundError", "ConnectionRefusedError",
     "BrokenPipeError", "ConnectionError", "ValueError",
     "JSONDecodeError", "AttributeError", "TypeError"}

\* The exceptions met below that derive from Exception (OSError and its
\* subclasses ConnectionError, BrokenPipeError, FileNotFoundError,
\* PermissionError and socket.timeout; ValueError and JSONDecodeError;
\* AttributeError; TypeError).
ExceptionClasses ==
    {"PermissionError", "FileNotFoundError", "ConnectionRefusedError",
     "BrokenPipeError", "ConnectionError", "timeout", "ValueError",
     "JSONDecodeError", "AttributeError", "TypeError"}

\* The OSError family among them.
OSErrorClasses ==
    {"PermissionError", "FileNotFoundError", "ConnectionRefusedError",
     "BrokenPipeError", "ConnectionError", "timeout"}

\* A handler that lets everything but OSError through.
OnException_OSErrorOnly(cl, exception, how) ==
    IF exception \in OSErrorClasses THEN Returns(cl, RejectTuple, how)
    ELSE Raises(cl, exception, how)

\* classify_via_daemon(), lines 200-201: except Exception: return the
\* fallback tuple. detect_patterns (line 487) returns what it got.
OnException(cl, exception, how) ==
    IF exception \in ExceptionClasses THEN Returns(cl, RejectTuple, how)
    ELSE Raises(cl, exception, how)

\* The call of ensure_server_running did event: the record of it is kept for
\* a process that calls ensure_server_running by itself.
Did(cl, event) ==
    IF cl.kind = "ensure" THEN [cl EXCEPT !.trace = Append(@, event)] ELSE cl

\* A hook that lets an exception out of main() end the process: Python exits
\* with status 1.
HookExit_Uncaught(value) == IF value = "raise" THEN <<PyInt(1)>> ELSE <<PyInt(0)>>

\* The exit status of ensure_embedding_server: main() returns 0 at lines 19,
\* 22 and 29, and an exception out of it is caught at lines 35-37, sys.exit(0).
HookExit(value) == <<PyInt(0)>>

\* ensure_server_running() returns value ("True", "False") or lets the
\* exception of _find_python through ("raise") to its caller:
\* ensure_embedding_server.main() returns 0 either way (lines 24-29, 35-37);
\* classify_via_daemon returns the fallback on False (lines 177-178), handles
\* the exception, and goes on to connect on True.
EnsureReturns(cl, value) ==
    IF cl.kind = "hook"
    THEN [ClientStart EXCEPT !.kind = cl.kind, !.pc = "return", !.ensured = value,
                             !.result = HookExit(value)]
    ELSE IF cl.kind = "ensure"
    THEN [ClientStart EXCEPT !.kind = cl.kind, !.pc = "return", !.ensured = value,
                             !.trace = cl.trace]
    ELSE IF value = "True"
    THEN [cl EXCEPT !.pc = "c_connect", !.ensured = value, !.ret = "", !.pid = 0,
                    !.running = FALSE, !.ready = FALSE, !.polls = 0,
                    !.spawned = 0, !.obs = NoObs, !.waited = 0]
    ELSE IF value = "False" THEN Returns(cl, RejectTuple, "ensure-false")
    ELSE OnException(cl, "PermissionError", "ensure-raise")

\* An ensure_server_running that goes on to its clean-up and spawn although
\* both checks of line 91 passed.
AfterHelper_NoFastPath(cl, value) ==
    LET at == IF cl.obs.unlinked THEN Did(cl, "unlink-pid") ELSE cl
    IN  CASE cl.ret = "hook" ->
               IF value
               THEN [ClientStart EXCEPT !.kind = cl.kind, !.pc = "return",
                                        !.obs = cl.obs,
                                        !.result = HookExit("running")]
               ELSE [cl EXCEPT !.pc = "irs_exists", !.ret = "fast"]
          [] cl.ret = "fast" ->
               IF value
               THEN [Did(at, "running") EXCEPT !.pc = "isr_exists", !.ret = "fastr"]
               ELSE [Did(at, "not-running") EXCEPT !.pc = "e_sock_exists"]
          [] cl.ret = "fastr" ->
               IF value THEN [Did(at, "ready") EXCEPT !.pc = "e_sock_exists"]
               ELSE [Did(at, "not-ready") EXCEPT !.pc = "e_sock_exists"]
          [] cl.ret = "stale" ->
               IF value THEN [Did(at, "running") EXCEPT !.pc = "e_spawn"]
               ELSE [Did(at, "not-running") EXCEPT !.pc = "e_unlink_sock"]
          [] cl.ret = "poll" ->
               IF value THEN EnsureReturns(at, "True")
               ELSE [at EXCEPT !.pc = "e_poll"]

\* Where a helper returns to, given the caller (ret) and the value returned.
\*   hook  : ensure_embedding_server.main(), line 21, and then the call of
\*           ensure_server_running(), line 24, which starts at its line 91
\*   fast  : ensure_server_running(), line 91, first operand
\*   fastr : ensure_server_running(), line 91, second operand
\*   stale : ensure_server_running(), line 95
\*   poll  : ensure_server_running(), line 133
AfterHelper(cl, value) ==
    LET at == IF cl.obs.unlinked THEN Did(cl, "unlink-pid") ELSE cl
    IN  CASE cl.ret = "hook" ->
               IF value
               THEN [ClientStart EXCEPT !.kind = cl.kind, !.pc = "return",
                                        !.obs = cl.obs,
                                        !.result = HookExit("running")]
               ELSE [cl EXCEPT !.pc = "irs_exists", !.ret = "fast"]
          [] cl.ret = "fast" ->
               IF value
               THEN [Did(at, "running") EXCEPT !.pc = "isr_exists", !.ret = "fastr"]
               ELSE [Did(at, "not-running") EXCEPT !.pc = "e_sock_exists"]
          [] cl.ret = "fastr" ->
               IF value THEN EnsureReturns(Did(at, "ready"), "True")
               ELSE [Did(at, "not-ready") EXCEPT !.pc = "e_sock_exists"]
          [] cl.ret = "stale" ->
               IF value THEN [Did(at, "running") EXCEPT !.pc = "e_spawn"]
               ELSE [Did(at, "not-running") EXCEPT !.pc = "e_unlink_sock"]
          [] cl.ret = "poll" ->
               IF value THEN EnsureReturns(at, "True")
               ELSE [at EXCEPT !.pc = "e_poll"]

\* _is_server_running(), lines 33-34: PID_FILE.exists()
IsServerRunning_Exists(c) ==
    /\ client[c].pc = "irs_exists"
    /\ LET cl == [client[c] EXCEPT
                    !.obs = [NoObs EXCEPT
                               !.exists = IF Exists(pidFile) THEN "yes" ELSE "no",
                               !.ret = IF Exists(pidFile) THEN "" ELSE "False",
                               !.after = IF Exists(pidFile) THEN "" ELSE "no"],
                    !.running = FALSE, !.pid = 0]
       IN client' = [client EXCEPT ![c] =
                        IF Exists(pidFile) THEN [cl EXCEPT !.pc = "irs_read"]
                        ELSE AfterHelper(cl, FALSE)]
    /\ UNCHANGED <<pidFile, sockFile, daemon, queue, conn, nsig, call>>

\* _is_server_running(), lines 36-39: int(PID_FILE.read_text().strip());
\* ValueError (no number in it) or IOError (no file any more) -> return False
IsServerRunning_Read(c) ==
    /\ client[c].pc = "irs_read"
    /\ LET cl == [client[c] EXCEPT
                    !.pid = IF pidFile[1] = "pid" THEN pidFile[2] ELSE 0,
                    !.obs.content = pidFile[1],
                    !.obs.ret = IF pidFile[1] = "pid" THEN "" ELSE "False",
                    !.obs.after = IF pidFile[1] = "pid" THEN ""
                                  ELSE IF Exists(pidFile) THEN "yes" ELSE "no"]
       IN client' = [client EXCEPT ![c] =
                        IF pidFile[1] = "pid" THEN [cl EXCEPT !.pc = "irs_kill"]
                        ELSE AfterHelper(cl, FALSE)]
    /\ UNCHANGED <<pidFile, sockFile, daemon, queue, conn, nsig, call>>

\* os.kill(pid, 0) succeeds for the id of a live process
KillProbe(pid) == pid \in Daemons /\ Live(pid)

\* _is_server_running(), lines 42-45: os.kill(pid, 0) -> return True
IsServerRunning_Kill(c) ==
    /\ client[c].pc = "irs_kill"
    /\ LET alive == KillProbe(client[c].pid)
           cl == [client[c] EXCEPT
                    !.obs.alive = IF client[c].pid \in LiveDaemons THEN "yes" ELSE "no",
                    !.obs.ret = IF alive THEN "True" ELSE "",
                    !.obs.after = IF ~alive THEN ""
                                  ELSE IF Exists(pidFile) THEN "yes" ELSE "no",
                    !.running = alive]
       IN client' = [client EXCEPT ![c] =
                        IF alive THEN AfterHelper(cl, TRUE)
                        ELSE [cl EXCEPT !.pc = "irs_unlink"]]
    /\ UNCHANGED <<pidFile, sockFile, daemon, queue, conn, nsig, call>>

\* A liveness check that reports a dead process and leaves its PID file.
IsServerRunning_UnlinkSkipped(c) ==
    /\ client[c].pc = "irs_unlink"
    /\ pidFile' = pidFile
    /\ client' = [client EXCEPT ![c] =
         AfterHelper([client[c] EXCEPT
                         !.obs.unlinked = TRUE, !.obs.ret = "False",
                         !.obs.after = IF Exists(pidFile') THEN "yes" ELSE "no"],
                     FALSE)]
    /\ UNCHANGED <<sockFile, daemon, queue, conn, nsig, call>>

\* _is_server_running(), lines 45-51: except OSError: PID_FILE.unlink()
\* (an OSError of it passed over); return False
IsServerRunning_Unlink(c) ==
    /\ client[c].pc = "irs_unlink"
    /\ pidFile' = NoFile
    /\ client' = [client EXCEPT ![c] =
         AfterHelper([client[c] EXCEPT
                         !.obs.unlinked = TRUE, !.obs.ret = "False",
                         !.obs.after = IF Exists(pidFile') THEN "yes" ELSE "no"],
                     FALSE)]
    /\ UNCHANGED <<sockFile, daemon, queue, conn, nsig, call>>

\* _is_socket_ready(), lines 56-57: Path(SOCKET_PATH).exists()
IsSocketReady_Exists(c) ==
    /\ client[c].pc = "isr_exists"
    /\ LET cl == [client[c] EXCEPT !.ready = FALSE, !.obs = NoObs]
       IN client' = [client EXCEPT ![c] =
                        IF Exists(sockFile) THEN [cl EXCEPT !.pc = "isr_connect"]
                        ELSE AfterHelper(cl, FALSE)]
    /\ UNCHANGED <<pidFile, sockFile, daemon, queue, conn, nsig, call>>

\* connect(SOCKET_PATH) reaches the daemon whose listening socket is bound to
\* the file now at the path; 0 when there is no file or nobody listens on it.
Listener ==
    IF Exists(sockFile) /\ sockFile[2] \in Daemons
    THEN (IF daemon[sockFile[2]].listening THEN sockFile[2] ELSE 0)
    ELSE 0

\* sock.listen(5), embedding_server.py line 119
LISTEN_BACKLOG == 5

\* connect() is taken into the accept queue of daemon d at once: d listens
\* and its queue is not over the backlog (Linux admits one more than the
\* backlog; a connect() beyond that waits, here until the 0.5 s timeout).
Admits(d) ==
    IF d \in Daemons THEN Len(queue[d]) <= LISTEN_BACKLOG ELSE FALSE

\* _is_socket_ready(), lines 59-66: connect and close at once; any OSError
\* (socket.timeout is one) -> return False
IsSocketReady_Connect(c) ==
    /\ client[c].pc = "isr_connect"
    /\ client' = [client EXCEPT ![c] =
         AfterHelper([client[c] EXCEPT !.ready = Admits(Listener)], Admits(Listener))]
    /\ queue' = IF Admits(Listener) THEN [queue EXCEPT ![Listener] = Append(@, Probe)]
                ELSE queue
    /\ UNCHANGED <<pidFile, sockFile, daemon, conn, nsig, call>>

\* Client pcs of ensure_server_running before its Popen.
BeforeSpawn ==
    {"irs_exists", "irs_read", "irs_kill", "irs_unlink", "isr_exists",
     "isr_connect", "e_sock_exists", "e_unlink_sock", "e_spawn"}

\* The model spawns at most MaxDaemons processes: a call that may come to
\* spawn one starts only while a process is left for it.
SpawnBudget ==
    Cardinality({d \in Daemons : daemon[d].pc = "none"})
      - Cardinality({c \in Clients : client[c].pc \in BeforeSpawn /\ client[c].polls = 0})

\* ensure_embedding_server.main(), lines 14-22: the SessionStart hook starts
\* with _is_server_running()
HookStart(c) ==
    /\ client[c].pc = "idle"
    /\ SpawnBudget >= 1
    /\ \E outcome \in {"imported", "ImportError"} :
         client' = [client EXCEPT ![c] =
            IF outcome = "ImportError"
            THEN [ClientStart EXCEPT !.kind = "hook", !.pc = "return",
                                     !.via = "import-error",
                                     !.result = HookExit("import-error")]
            ELSE [ClientStart EXCEPT !.kind = "hook", !.pc = "irs_exists",
                                     !.ret = "hook"]]
    /\ UNCHANGED <<pidFile, sockFile, daemon, queue, conn, nsig, call>>

\* A process calls ensure_server_running() by itself (line 91).
EnsureStart(c) ==
    /\ client[c].pc \in {"idle", "return"}
    /\ SpawnBudget >= 1
    /\ client' = [client EXCEPT ![c] = [ClientStart EXCEPT !.kind = "ensure",
                                           !.pc = "irs_exists", !.ret = "fast"]]
    /\ UNCHANGED <<pidFile, sockFile, daemon, queue, conn, nsig, call>>

\* ensure_server_running(), line 95: Path(SOCKET_PATH).exists() and ...
Ensure_SocketExists(c) ==
    /\ client[c].pc = "e_sock_exists"
    /\ client' = [client EXCEPT
         ![c].pc = IF Exists(sockFile) THEN "irs_exists" ELSE "e_spawn",
         ![c].ret = "stale", ![c].obs = NoObs]
    /\ UNCHANGED <<pidFile, sockFile, daemon, queue, conn, nsig, call>>

\* ensure_server_running(), lines 96-99: Path(SOCKET_PATH).unlink(), an
\* OSError of it passed over
Ensure_UnlinkSocket(c) ==
    /\ client[c].pc = "e_unlink_sock"
    /\ sockFile' = NoFile
    /\ client' = [client EXCEPT ![c] =
                     [Did(client[c], "unlink-sock") EXCEPT !.pc = "e_spawn",
                                                           !.obs = NoObs]]
    /\ UNCHANGED <<pidFile, daemon, queue, conn, nsig, call>>

\* What lines 101-127 come to: no launcher found, an exception out of
\* _find_python (subprocess.run raises e.g. PermissionError, which lines 80-81
\* do not catch), no server script, Popen raising OSError, or a process.
\* SERVER_START_TIMEOUT and SERVER_START_POLL, in units of 0.1 s
SERVER_START_TIMEOUT == 100
SERVER_START_POLL == 3

SpawnOutcomes == {"no-launcher", "find-raises", "no-script", "popen-oserror", "spawned"}

\* An ensure_server_running without the check of lines 106-107: the launcher
\* is started on a script that does not exist.
Ensure_Spawn_ScriptUnchecked(c) ==
    /\ client[c].pc = "e_spawn"
    /\ \E outcome \in SpawnOutcomes :
         IF outcome \in {"spawned", "no-script"}
         THEN \E d \in Daemons :
                /\ daemon[d].pc = "none"
                /\ \A e \in Daemons : e < d => daemon[e].pc # "none"
                /\ daemon' = [daemon EXCEPT ![d].pc = "start"]
                /\ client' = [client EXCEPT ![c] =
                     [Did(client[c], outcome) EXCEPT
                         !.pc = "e_poll", !.spawned = d, !.polls = 0,
                         !.waited = 0, !.obs = NoObs]]
         ELSE /\ client' = [client EXCEPT ![c] =
                   EnsureReturns(Did(client[c], outcome),
                                 IF outcome = "find-raises" THEN "raise" ELSE "False")]
              /\ UNCHANGED daemon
    /\ UNCHANGED <<pidFile, sockFile, queue, conn, nsig, call>>

\* ensure_server_running(), lines 101-130: _find_python(), the script check,
\* subprocess.Popen(...) and the deadline
Ensure_Spawn(c) ==
    /\ client[c].pc = "e_spawn"
    /\ \E outcome \in SpawnOutcomes :
         IF outcome = "spawned"
         THEN \E d \in Daemons :
                /\ daemon[d].pc = "none"
                /\ \A e \in Daemons : e < d => daemon[e].pc # "none"
                /\ daemon' = [daemon EXCEPT ![d].pc = "start"]
                /\ client' = [client EXCEPT ![c] =
                     [Did(client[c], outcome) EXCEPT
                         !.pc = "e_poll", !.spawned = d, !.polls = 0,
                         !.waited = 0, !.obs = NoObs]]
         ELSE /\ client' = [client EXCEPT ![c] =
                   EnsureReturns(Did(client[c], outcome),
                                 IF outcome = "find-raises" THEN "raise" ELSE "False")]
              /\ UNCHANGED daemon
    /\ UNCHANGED <<pidFile, sockFile, queue, conn, nsig, call>>

\* A polling loop whose sleep takes no time.
Ensure_PollWithin_NoSleep(c, most) ==
    /\ client[c].pc = "e_poll"
    /\ client[c].waited < SERVER_START_TIMEOUT
    /\ client' = [client EXCEPT ![c] =
         [(IF @.polls = 0 THEN Did(@, "poll") ELSE @) EXCEPT
             !.pc = "isr_exists", !.ret = "poll", !.polls = @ + 1]]
    /\ UNCHANGED <<pidFile, sockFile, daemon, queue, conn, nsig, call>>

\* ensure_server_running(), lines 131-133: while time.monotonic() < deadline:
\* time.sleep(SERVER_START_POLL), then _is_socket_ready(). The iteration
\* takes the time of the sleep, or more when the process is held up (late):
\* it is then past the deadline. The deadline is 10 s away when the loop is
\* entered, so one poll at least is made. Of the behaviours with more than
\* `most` polls only those are kept in which the poll after them is late.
Ensure_PollWithin(c, most) ==
    /\ client[c].pc = "e_poll"
    /\ client[c].waited < SERVER_START_TIMEOUT
    /\ \E late \in BOOLEAN :
         /\ client[c].polls + 1 >= most => late
         /\ client' = [client EXCEPT ![c] =
              [(IF @.polls = 0 THEN Did(@, "poll") ELSE @) EXCEPT
                  !.pc = "isr_exists", !.ret = "poll", !.polls = @ + 1,
                  !.waited = IF late THEN SERVER_START_TIMEOUT
                             ELSE Min(@ + SERVER_START_POLL, SERVER_START_TIMEOUT)]]
    /\ UNCHANGED <<pidFile, sockFile, daemon, queue, conn, nsig, call>>

Ensure_Poll(c) == Ensure_PollWithin(c, MaxPolls)

\* ensure_server_running(), lines 131 and 136: the deadline has passed
Ensure_Deadline(c) ==
    /\ client[c].pc = "e_poll"
    /\ client[c].waited >= SERVER_START_TIMEOUT
    /\ client' = [client EXCEPT ![c] = EnsureReturns(client[c], "False")]
    /\ UNCHANGED <<pidFile, sockFile, daemon, queue, conn, nsig, call>>

\* --------------------------------------------------------------- stop_server
\* A process calls stop_server() (line 204).
StopStart(c) ==
    /\ client[c].pc = "idle"
    /\ client' = [client EXCEPT ![c] = [ClientStart EXCEPT !.kind = "stop",
                                                           !.pc = "s_exists"]]
    /\ UNCHANGED <<pidFile, sockFile, daemon, queue, conn, nsig, call>>

\* stop_server(), lines 206-207: if not PID_FILE.exists(): return False
StopServer_Exists(c) ==
    /\ client[c].pc = "s_exists"
    /\ client' = [client EXCEPT ![c] =
         IF Exists(pidFile) THEN [@ EXCEPT !.pc = "s_read"]
         ELSE Returns(@, PyBool(FALSE), "no-pid-file")]
    /\ UNCHANGED <<pidFile, sockFile, daemon, queue, conn, nsig, call>>

\* stop_server(), line 210: int(PID_FILE.read_text().strip()); ValueError (no
\* number in the file) or OSError (no file any more) -> return False
StopServer_Read(c) ==
    /\ client[c].pc = "s_read"
    /\ client' = [client EXCEPT ![c] =
         IF pidFile[1] = "pid" THEN [@ EXCEPT !.pc = "s_kill", !.pid = pidFile[2]]
         ELSE Returns(@, PyBool(FALSE), "no-pid")]
    /\ UNCHANGED <<pidFile, sockFile, daemon, queue, conn, nsig, call>>

\* A stop_server that reports success whether or not os.kill raised.
StopServer_Kill_AlwaysTrue(c) ==
    /\ client[c].pc = "s_kill"
    /\ client' = [client EXCEPT ![c] = Returns(@, PyBool(TRUE), "sigterm")]
    /\ IF KillProbe(client[c].pid) THEN Deliver(client[c].pid, "TERM")
       ELSE UNCHANGED <<daemon, queue, conn, nsig>>
    /\ UNCHANGED <<pidFile, sockFile, call>>

\* stop_server(), lines 211-216: os.kill(pid, signal.SIGTERM), then
\* time.sleep(0.5) and return True; OSError (no such process) -> return False
StopServer_Kill(c) ==
    /\ client[c].pc = "s_kill"
    /\ IF KillProbe(client[c].pid)
       THEN /\ Deliver(client[c].pid, "TERM")
            /\ client' = [client EXCEPT ![c] = Returns(@, PyBool(TRUE), "sigterm")]
       ELSE /\ client' = [client EXCEPT ![c] = Returns(@, PyBool(FALSE), "no-process")]
            /\ UNCHANGED <<daemon, queue, conn, nsig>>
    /\ UNCHANGED <<pidFile, sockFile, call>>

StopStep(c) ==
    \/ StopServer_Exists(c)
    \/ StopServer_Read(c)
    \/ StopServer_Kill(c)

\* ------------------------------------------------------- classify_via_daemon
\* The request classify_via_daemon sends for text (line 184)
Request(text) ==
    [len |-> PayloadLen([text |-> PyStr(text)]),
     doc |-> JsonDumps([text |-> PyStr(text)])]

\* The socket of a process whose call has returned is closed.
CloseIfReturned(cn, c, cl) ==
    IF cl.pc = "return" /\ cn[c].cend = "open"
    THEN [cn EXCEPT ![c].cend = "closed"] ELSE cn

\* connect() on a listener whose backlog is full (listen(5), line 119) blocks
\* and times out after CONNECT_TIMEOUT. The model's clients cannot fill the
\* backlog of a daemon; the processes connected to an unconstrained server
\* are not all in the model.
ConnectOutcomes(d) ==
    IF daemon[d].pc = "any" THEN {"connected", "timeout"} ELSE {"connected"}

\* classify_via_daemon(), lines 180-182: socket(); settimeout; connect()
Classify_Connect(c) ==
    /\ client[c].pc = "c_connect"
    /\ IF Listener # 0
       THEN \E outcome \in ConnectOutcomes(Listener) :
              IF outcome = "connected"
              THEN /\ conn' = [conn EXCEPT ![c] =
                                  [ConnStart EXCEPT !.srv = Listener, !.cend = "open",
                                                    !.send = "queued",
                                                    !.req = Request(client[c].text)]]
                   /\ queue' = [queue EXCEPT ![Listener] = Append(@, c)]
                   /\ client' = [client EXCEPT ![c].pc = "c_send"]
              ELSE /\ client' = [client EXCEPT ![c] =
                                    OnException(client[c], "timeout", "connect")]
                   /\ UNCHANGED <<conn, queue>>
       ELSE /\ client' = [client EXCEPT ![c] =
                 OnException(client[c],
                             IF Exists(sockFile) THEN "ConnectionRefusedError"
                             ELSE "FileNotFoundError", "connect")]
            /\ UNCHANGED <<conn, queue>>
    /\ UNCHANGED <<pidFile, sockFile, daemon, nsig, call>>

\* _send_request(), lines 139-142: sendall(header + payload); BrokenPipeError
\* when the peer has closed the connection
Classify_Send(c) ==
    /\ client[c].pc = "c_send"
    /\ LET cl == IF conn[c].send = "closed"
                 THEN OnException(client[c], "BrokenPipeError", "send")
                 ELSE [client[c] EXCEPT !.pc = "c_recv_hdr", !.rhdr = 0,
                                        !.rbody = 0, !.mlen = 0]
       IN /\ client' = [client EXCEPT ![c] = cl]
          /\ conn' = CloseIfReturned(
                        IF conn[c].send = "closed" THEN conn
                        ELSE [conn EXCEPT ![c].sent = HEADER_SIZE + conn[c].req.len],
                        c, cl)
    /\ UNCHANGED <<pidFile, sockFile, daemon, queue, nsig, call>>

\* classify_via_daemon(), lines 186-198, after the frame is read: json.loads
\* (line 165), sock.close(), the "error" test and the five .get()s. A JSON
\* array has no "error" in it and no .get.
DecodeResponse(cl, document) ==
    IF document.doc = "invalid" THEN OnException(cl, "JSONDecodeError", "json")
    ELSE IF document.doc # "object"
    THEN OnException(cl, "AttributeError", "not-object")
    ELSE LET result == JsonLoads(document) IN
         IF "error" \in DOMAIN result THEN Returns(cl, RejectTuple, "error-key")
         ELSE Returns(cl, <<Get(result, "type", PyNone),
                            Get(result, "patterns", PyStr("")),
                            Get(result, "confidence", PyFloat(0)),
                            Get(result, "sentiment", PyStr("correction")),
                            Get(result, "decay_days", PyInt(90))>>, "ok")

\* Bytes of the response's header and body the peer has written.
HeaderWritten(c) == IF conn[c].rsp = <<>> THEN 0 ELSE conn[c].rsp[1].hdr
BodyWritten(c) == IF conn[c].rsp = <<>> THEN 0 ELSE conn[c].rsp[1].got

\* _recv_response(), lines 147-156: one sock.recv(4 - len(header)); with the
\* header complete, unpack the length and refuse one above 65536.
RecvResponse_Header(c) ==
    /\ client[c].pc = "c_recv_hdr"
    /\ LET avail == HeaderWritten(c) - client[c].rhdr
           msg_len == conn[c].rsp[1].len
           cl == IF avail = 0
                 THEN OnException(client[c], "ConnectionError", "disconnect")
                 ELSE IF client[c].rhdr + avail < HEADER_SIZE
                 THEN [client[c] EXCEPT !.rhdr = @ + avail]
                 ELSE IF msg_len > 65536
                 THEN OnException(client[c], "ValueError", "too-large")
                 ELSE IF msg_len = 0
                 THEN DecodeResponse(client[c], JsonInvalid)
                 ELSE [client[c] EXCEPT !.rhdr = HEADER_SIZE, !.mlen = msg_len,
                                        !.pc = "c_recv_body"]
       IN /\ avail = 0 => conn[c].send = "closed"
          /\ client' = [client EXCEPT ![c] = cl]
          /\ conn' = CloseIfReturned(conn, c, cl)
    /\ UNCHANGED <<pidFile, sockFile, daemon, queue, nsig, call>>

\* _recv_response(), lines 158-165: one sock.recv(min(msg_len - len(data),
\* 4096)); with the body complete, json.loads and the rest of
\* classify_via_daemon.
RecvResponse_Body(c) ==
    /\ client[c].pc = "c_recv_body"
    /\ LET avail == BodyWritten(c) - client[c].rbody
           n == Min(avail, Min(client[c].mlen - client[c].rbody, RECV_CHUNK))
           cl == IF avail = 0
                 THEN OnException(client[c], "ConnectionError", "disconnect")
                 ELSE IF client[c].rbody + n < client[c].mlen
                 THEN [client[c] EXCEPT !.rbody = @ + n]
                 ELSE DecodeResponse(client[c], conn[c].rsp[1].doc)
       IN /\ avail = 0 => conn[c].send = "closed"
          /\ client' = [client EXCEPT ![c] = cl]
          /\ conn' = CloseIfReturned(conn, c, cl)
    /\ UNCHANGED <<pidFile, sockFile, daemon, queue, nsig, call>>

\* A recv without a timeout: with no byte to read and an open peer it waits.
RecvResponse_Timeout_Blocking(c) ==
    /\ client[c].pc \in {"c_recv_hdr", "c_recv_body"}
    /\ conn[c].send # "closed"
    /\ UNCHANGED vars

\* sock.settimeout(READ_TIMEOUT), line 183: a recv that finds no byte and an
\* open peer raises socket.timeout after 5 s.
RecvResponse_Timeout(c) ==
    /\ client[c].pc \in {"c_recv_hdr", "c_recv_body"}
    /\ IF client[c].pc = "c_recv_hdr" THEN HeaderWritten(c) = client[c].rhdr
       ELSE BodyWritten(c) = client[c].rbody
    /\ conn[c].send # "closed"
    /\ client' = [client EXCEPT ![c] =
                     OnException(client[c], "timeout", "read-timeout")]
    /\ conn' = [conn EXCEPT ![c].cend = "closed"]
    /\ UNCHANGED <<pidFile, sockFile, daemon, queue, nsig, call>>

ClassifyStep(c) ==
    \/ Classify_Connect(c)
    \/ Classify_Send(c)
    \/ RecvResponse_Header(c)
    \/ RecvResponse_Body(c)
    \/ RecvResponse_Timeout(c)

\* The messages classify_via_daemon is called with.
ServeTexts == {MsgCorrection, MsgGuardrail, MsgPositive, MsgChatter}

\* A process calls classify_via_daemon(text), which starts with
\* ensure_server_running() (line 177, then line 91).
ClassifyStart(c) ==
    /\ client[c].pc = "idle"
    /\ SpawnBudget >= 1
    /\ \E text \in ServeTexts :
         client' = [client EXCEPT ![c] =
                       [ClientStart EXCEPT !.kind = "classify", !.text = text,
                                           !.pc = "irs_exists", !.ret = "fast"]]
    /\ UNCHANGED <<pidFile, sockFile, daemon, queue, conn, nsig, call>>

\* ------------------------------------------------------- any other local peer
\* Any process of the user can connect to the socket and write what it likes.
\* The frames such a peer sends: a declared length above the maximum, the
\* maximum exactly (a JSON text padded with whitespace), no body, bytes that
\* are no JSON, JSON that is no object, objects without a text, with an empty
\* or a non-string text, and a well-formed request.
PeerRequests ==
    {[len |-> MAX_MSG_SIZE + 1, doc |-> JsonInvalid],
     [len |-> MAX_MSG_SIZE, doc |-> JsonDumps([text |-> PyStr(MsgGuardrail)])],
     [len |-> 0, doc |-> JsonInvalid],
     [len |-> 7, doc |-> JsonInvalid],
     [len |-> 2, doc |-> JsonArray],
     [len |-> PayloadLen([id |-> PyInt(1)]), doc |-> JsonDumps([id |-> PyInt(1)])],
     [len |-> PayloadLen([text |-> PyStr("")]), doc |-> JsonDumps([text |-> PyStr("")])],
     [len |-> PayloadLen([text |-> PyInt(5)]), doc |-> JsonDumps([text |-> PyInt(5)])],
     Request(MsgCorrection)}

\* The byte counts at which a peer's writes stop: within the header, after
\* the header, within the body, after the body.
SendPoints(req) ==
    {2, HEADER_SIZE} \cup
    (IF req.len > 1 THEN {HEADER_SIZE + req.len \div 2} ELSE {}) \cup
    (IF req.len > 0 THEN {HEADER_SIZE + req.len} ELSE {})

\* connect(SOCKET_PATH) by such a peer
PeerConnect(c) ==
    /\ client[c].pc = "idle"
    /\ Listener # 0
    /\ \E req \in PeerRequests :
         conn' = [conn EXCEPT ![c] =
                     [ConnStart EXCEPT !.srv = Listener, !.cend = "open",
                                       !.send = "queued", !.req = req]]
    /\ queue' = [queue EXCEPT ![Listener] = Append(@, c)]
    /\ client' = [client EXCEPT ![c] =
                     [ClientStart EXCEPT !.kind = "peer", !.pc = "p_open"]]
    /\ UNCHANGED <<pidFile, sockFile, daemon, nsig, call>>

\* send() of the next bytes of its frame
PeerSend(c) ==
    /\ client[c].pc = "p_open"
    /\ conn[c].send # "closed"
    /\ \E n \in SendPoints(conn[c].req) :
         /\ n > conn[c].sent
         /\ conn' = [conn EXCEPT ![c].sent = n]
    /\ UNCHANGED <<pidFile, sockFile, daemon, queue, client, nsig, call>>

\* close(), or the end of the process
PeerClose(c) ==
    /\ client[c].pc = "p_open"
    /\ conn' = [conn EXCEPT ![c].cend = "closed"]
    /\ client' = [client EXCEPT ![c].pc = "return"]
    /\ UNCHANGED <<pidFile, sockFile, daemon, queue, nsig, call>>

\* ------------------------------------------------------------ detect_patterns
\* A text is a sequence of characters; re.search is modelled on it pattern by
\* pattern, with re.IGNORECASE.
Upper == <<"A", "B", "C", "D", "E", "F", "G", "H", "I", "J", "K", "L", "M",
           "N", "O", "P", "Q", "R", "S", "T", "U", "V", "W", "X", "Y", "Z">>
Letters == <<"a", "b", "c", "d", "e", "f", "g", "h", "i", "j", "k", "l", "m",
             "n", "o", "p", "q", "r", "s", "t", "u", "v", "w", "x", "y", "z">>

ToLower == [ch \in {Upper[i] : i \in 1..26} |->
               Letters[CHOOSE i \in 1..26 : Upper[i] = ch]]

Lower(ch) == IF ch \in DOMAIN ToLower THEN ToLower[ch] ELSE ch

\* A character outside ASCII is written as its code point: the full-width
\* question mark U+FF1F and the ideograph U+55CE, a question particle.
FullWidthQuestionMark == "U+FF1F"
QuestionParticle == "U+55CE"

\* \w and \s (a str pattern: an ideograph is a word character)
WordChars ==
    {Letters[i] : i \in 1..26} \cup {Upper[i] : i \in 1..26} \cup
    {"_", "0", "1", "2", "3", "4", "5", "6", "7", "8", "9", QuestionParticle}
IsWordAt(chars, i) == i \in 1..Len(chars) /\ chars[i] \in WordChars
IsSpace(ch) == ch \in {" ", "\n", "\t"}

\* \b at position i (between chars[i-1] and chars[i])
WordBoundary(chars, i) == IsWordAt(chars, i - 1) # IsWordAt(chars, i)

\* $ at position i: the end, or just before a newline that ends the text
AtEnd(chars, i) ==
    i = Len(chars) + 1 \/ (i = Len(chars) /\ chars[i] = "\n")

\* The literal lit matches at position i
LitAt(chars, i, lit) ==
    /\ i >= 1 /\ i + Len(lit) - 1 <= Len(chars)
    /\ \A k \in 1..Len(lit) : Lower(chars[i + k - 1]) = lit[k]

\* (a|b|...) at position i: the positions after a match
AltEnds(chars, i, alts) == {i + Len(a) : a \in {x \in alts : LitAt(chars, i, x)}}

\* \s+ at position i: the positions after a match
SpaceEnds(chars, i) ==
    {j \in (i + 1)..(Len(chars) + 1) : \A k \in i..(j - 1) : IsSpace(chars[k])}

Starts(chars) == 1..(Len(chars) + 1)

\* FALSE_POSITIVE_PATTERNS, lines 442-450: whether re.search finds each
FALSE_POSITIVE_PATTERNS(chars) ==
    << \* \?$
       \E i \in 1..Len(chars) : chars[i] = "?" /\ AtEnd(chars, i + 1),
       \* ^(please|can you|could you|would you|help me)\b
       \E j \in AltEnds(chars, 1,
                {<<"p", "l", "e", "a", "s", "e">>,
                <<"c", "a", "n", " ", "y", "o", "u">>,
                <<"c", "o", "u", "l", "d", " ", "y", "o", "u">>,
                <<"w", "o", "u", "l", "d", " ", "y", "o", "u">>,
                <<"h", "e", "l", "p", " ", "m", "e">>}) :
           WordBoundary(chars, j),
       \* (help|fix|check|review|figure out|set up)\s+(this|that|it|the)\b
       \E i \in Starts(chars) :
         \E j \in AltEnds(chars, i,
                  {<<"h", "e", "l", "p">>,
                  <<"f", "i", "x">>,
                  <<"c", "h", "e", "c", "k">>,
                  <<"r", "e", "v", "i", "e", "w">>,
                  <<"f", "i", "g", "u", "r", "e", " ", "o", "u", "t">>,
                  <<"s", "e", "t", " ", "u", "p">>}) :
           \E k \in SpaceEnds(chars, j) :
             \E l \in AltEnds(chars, k,
                      {<<"t", "h", "i", "s">>,
                      <<"t", "h", "a", "t">>,
                      <<"i", "t">>,
                      <<"t", "h", "e">>}) :
               WordBoundary(chars, l),
       \* (error|failed|could not|cannot|can't|unable to)\s+\w+
       \E i \in Starts(chars) :
         \E j \in AltEnds(chars, i,
                  {<<"e", "r", "r", "o", "r">>,
                  <<"f", "a", "i", "l", "e", "d">>,
                  <<"c", "o", "u", "l", "d", " ", "n", "o", "t">>,
                  <<"c", "a", "n", "n", "o", "t">>,
                  <<"c", "a", "n", "'", "t">>,
                  <<"u", "n", "a", "b", "l", "e", " ", "t", "o">>}) :
           \E k \in SpaceEnds(chars, j) : IsWordAt(chars, k),
       \* (is|was|are|were)\s+(not|broken|failing)
       \E i \in Starts(chars) :
         \E j \in AltEnds(chars, i,
                  {<<"i", "s">>,
                  <<"w", "a", "s">>,
                  <<"a", "r", "e">>,
                  <<"w", "e", "r", "e">>}) :
           \E k \in SpaceEnds(chars, j) :
             AltEnds(chars, k,
                  {<<"n", "o", "t">>,
                  <<"b", "r", "o", "k", "e", "n">>,
                  <<"f", "a", "i", "l", "i", "n", "g">>}) # {},
       \* ^I (need|want|would like)\b
       \E j \in AltEnds(chars, 1,
                {<<"i", " ", "n", "e", "e", "d">>,
                <<"i", " ", "w", "a", "n", "t">>,
                <<"i", " ", "w", "o", "u", "l", "d", " ", "l", "i", "k", "e">>}) :
           WordBoundary(chars, j),
       \* ^(ok|okay|alright)[,.]?\s+(so|now|let)
       \E j \in AltEnds(chars, 1,
                {<<"o", "k">>,
                <<"o", "k", "a", "y">>,
                <<"a", "l", "r", "i", "g", "h", "t">>}) :
         \E m \in {j} \cup (IF j <= Len(chars) /\ chars[j] \in {",", "."}
                             THEN {j + 1} ELSE {}) :
           \E k \in SpaceEnds(chars, m) :
             AltEnds(chars, k,
                  {<<"s", "o">>,
                  <<"n", "o", "w">>,
                  <<"l", "e", "t">>}) # {}
    >>

\* Lines 480-481: whether one of the patterns is found
MatchesFalsePositive(chars) ==
    LET found == FALSE_POSITIVE_PATTERNS(chars)
    IN \E n \in 1..Len(found) : found[n]

\* re.search(r"remember:", text, re.IGNORECASE), line 476
HasMarker(chars) ==
    \E i \in Starts(chars) :
        LitAt(chars, i, <<"r", "e", "m", "e", "m", "b", "e", "r", ":">>)

ExplicitTuple ==
    <<PyStr("explicit"), PyStr("remember:"), PyFloat(90000), PyStr("correction"),
      PyInt(120)>>

\* The str of a sequence of characters
RECURSIVE Join(_)
Join(chars) == IF chars = <<>> THEN "" ELSE Head(chars) \o Join(Tail(chars))

\* The texts detect_patterns is called with: up to MaxFrags of these pieces,
\* one after the other.
Fragments ==
    {<<"r", "e", "m", "e", "m", "b", "e", "r", ":">>,
     <<"R", "E", "M", "E", "M", "B", "E", "R", ":">>,
     <<"R", "e", "m", "e", "m", "b", "e", "r">>,
     <<"?">>,
     <<FullWidthQuestionMark>>,
     <<QuestionParticle>>,
     <<"O", "K">>,
     <<"\n">>,
     <<" ">>,
     <<"x">>,
     <<"P", "l", "e", "a", "s", "e">>,
     <<"f", "i", "x", " ", "t", "h", "i", "s">>,
     <<"i", "s", " ", "n", "o", "t">>,
     <<"e", "r", "r", "o", "r", " ", "i", "n">>,
     <<"I", " ", "n", "e", "e", "d">>,
     <<"o", "k", ",", " ", "s", "o">>,
     <<"n", "o", ",", " ", "u", "s", "e", " ", "X", " ", "n", "o", "t", " ", "Y">>}

RECURSIVE TextsOf(_)
TextsOf(n) ==
    IF n = 0 THEN {<<>>}
    ELSE TextsOf(n - 1) \cup {t \o f : t \in TextsOf(n - 1), f \in Fragments}

Texts == TextsOf(MaxFrags)

\* `from lib.daemon_client import classify_via_daemon`, line 486
ImportOutcomes == {"imported", "ImportError"}

\* A detect_patterns that filters before it looks for the marker.
Triage_FilterFirst(chars, outcome) ==
    IF MatchesFalsePositive(chars) THEN "false-positive"
    ELSE IF HasMarker(chars) THEN "marker"
    ELSE IF outcome = "ImportError" THEN "import-error"
    ELSE "daemon"

\* A detect_patterns without the false-positive filter.
Triage_NoFilter(chars, outcome) ==
    IF HasMarker(chars) THEN "marker"
    ELSE IF outcome = "ImportError" THEN "import-error"
    ELSE "daemon"

\* A detect_patterns that goes to the daemon whenever it can be imported, and
\* looks at the regular expressions only when it cannot.
Triage_DaemonFirst(chars, outcome) ==
    IF outcome = "imported" THEN "daemon"
    ELSE IF HasMarker(chars) THEN "marker"
    ELSE IF MatchesFalsePositive(chars) THEN "false-positive"
    ELSE "import-error"

\* detect_patterns(text), lines 475-492: which of its returns is taken: that
\* of the marker (477), of the first false-positive pattern found (482), the
\* fallback after an ImportError (492), or classify_via_daemon(text) (487).
Triage(chars, outcome) ==
    IF HasMarker(chars) THEN "marker"
    ELSE IF MatchesFalsePositive(chars) THEN "false-positive"
    ELSE IF outcome = "ImportError" THEN "import-error"
    ELSE "daemon"

\* A process calls detect_patterns(text); with nothing found by the regular
\* expressions it goes on to classify_via_daemon, which starts with
\* ensure_server_running() (daemon_client.py line 177, then line 91).
DetectStartWith(c, texts) ==
    /\ client[c].pc = "idle"
    /\ SpawnBudget >= 1
    /\ \E chars \in texts, outcome \in ImportOutcomes :
         LET cl == [ClientStart EXCEPT !.kind = "detect", !.chars = chars,
                                       !.text = Join(chars)]
             taken == Triage(chars, outcome)
         IN client' = [client EXCEPT ![c] =
              IF taken = "marker" THEN Returns(cl, ExplicitTuple, taken)
              ELSE IF taken = "daemon"
              THEN [cl EXCEPT !.pc = "irs_exists", !.ret = "fast"]
              ELSE Returns(cl, RejectTuple, taken)]
    /\ UNCHANGED <<pidFile, sockFile, daemon, queue, conn, nsig, call>>

DetectStart(c) == DetectStartWith(c, Texts)

\* ------------------------------------------------------ capture_learning hook
\* The literal lit stands at position i, letter case as written (re.search
\* without flags).
ExactAt(chars, i, lit) ==
    /\ i >= 1 /\ i + Len(lit) - 1 <= Len(chars)
    /\ \A k \in 1..Len(lit) : chars[i + k - 1] = lit[k]

Contains(chars, lit) == \E i \in Starts(chars) : ExactAt(chars, i, lit)

\* should_include_message(text), reflect_utils.py lines 594-618: the text is
\* not blank and none of skip_patterns is found in it.
SkipAtStart ==
    {<<"<">>, <<"[">>, <<"{">>, <<"A", "n", "a", "l", "y", "s", "i", "s", ":">>,
     <<"*", "*">>, <<" ", " ", " ", "-">>}
SkipAnywhere ==
    {<<"t", "o", "o", "l", "_", "r", "e", "s", "u", "l", "t">>,
     <<"t", "o", "o", "l", "_", "u", "s", "e", "_", "i", "d">>,
     <<"<", "c", "o", "m", "m", "a", "n", "d", "-">>,
     <<"<", "t", "a", "s", "k", "-", "n", "o", "t", "i", "f", "i", "c", "a",
       "t", "i", "o", "n", ">">>,
     <<"<", "s", "y", "s", "t", "e", "m", "-", "r", "e", "m", "i", "n", "d",
       "e", "r", ">">>,
     <<"T", "h", "i", "s", " ", "s", "e", "s", "s", "i", "o", "n", " ", "i",
       "s", " ", "b", "e", "i", "n", "g", " ", "c", "o", "n", "t", "i", "n",
       "u", "e", "d">>}
ShouldIncludeMessage(chars) ==
    /\ \E i \in 1..Len(chars) : ~IsSpace(chars[i])
    /\ \A lit \in SkipAtStart : ~ExactAt(chars, 1, lit)
    /\ \A lit \in SkipAnywhere : ~Contains(chars, lit)

\* MAX_CAPTURE_PROMPT_LENGTH, reflect_utils.py line 455
MAX_CAPTURE_PROMPT_LENGTH == 500

\* "remember:" in prompt.lower(), capture_learning.py line 49
LowerHasMarker(chars) ==
    Contains([i \in 1..Len(chars) |-> Lower(chars[i])],
             <<"r", "e", "m", "e", "m", "b", "e", "r", ":">>)

\* The queue file: whether it exists and the items in it.
NoQueueFile == [exists |-> FALSE, items |-> <<>>]
QueueFile(items) == [exists |-> TRUE, items |-> items]

\* create_queue_item(), reflect_utils.py lines 505-514 (the timestamp and the
\* project directory are left out)
QueueItem(chars, result) ==
    [type |-> result[1], message |-> chars, patterns |-> result[2],
     confidence |-> result[3], sentiment |-> result[4], decay_days |-> result[5]]

\* detect_patterns(prompt) as the hook sees it: the tuple of the marker, the
\* fallback, or what classify_via_daemon gave (answer).
DetectPatterns(chars, outcome, answer) ==
    LET taken == Triage(chars, outcome) IN
    IF taken = "marker" THEN ExplicitTuple
    ELSE IF taken = "daemon" THEN answer
    ELSE RejectTuple

\* main() of capture_learning.py, lines 39-81, for a prompt that is a string:
\* the texts passed to detect_patterns and the queue file afterwards.
CaptureLearning(chars, file, outcome, answer) ==
    IF chars = <<>> \/ ~ShouldIncludeMessage(chars)
       \/ (Len(chars) > MAX_CAPTURE_PROMPT_LENGTH /\ ~LowerHasMarker(chars))
    THEN [detected |-> <<>>, file |-> file]
    ELSE LET result == DetectPatterns(chars, outcome, answer) IN
         [detected |-> <<chars>>,
          file |-> IF Falsy(result[1]) THEN QueueFile(file.items)
                   ELSE QueueFile(Append(file.items, QueueItem(chars, result)))]

\* The prompts the hook is run on: a beginning, a text of MaxFrags - 1
\* fragments at most, and a run of letters that makes the prompt as long as
\* the limit, one longer, or no longer at all.
Beginnings ==
    {<<>>, <<"*", "*">>, <<"[">>,
     <<"<", "s", "y", "s", "t", "e", "m", "-", "r", "e", "m", "i", "n", "d",
       "e", "r", ">">>}
Padding == {0, MAX_CAPTURE_PROMPT_LENGTH, MAX_CAPTURE_PROMPT_LENGTH + 1}
PadTo(chars, n) ==
    IF Len(chars) >= n THEN chars
    ELSE chars \o [i \in 1..(n - Len(chars)) |-> "a"]
Prompts ==
    {PadTo(b \o x, n) : b \in Beginnings, x \in TextsOf(MaxFrags - 1), n \in Padding}

\* What classify_via_daemon may give for a prompt.
DaemonAnswers ==
    {RejectTuple} \cup {ClassifyMessage(Similarities(x)) : x \in ServeTexts}

QueueFiles == {NoQueueFile, QueueFile(<<>>), QueueFile(<<QueueItem(<<"x">>, ExplicitTuple)>>)}

\* The hook runs on a prompt.
Call_CaptureLearning ==
    /\ call = NoCall
    /\ \E chars \in Prompts, file \in QueueFiles, outcome \in ImportOutcomes,
          answer \in DaemonAnswers :
         call' = [fn |-> "capture_learning", args |-> <<chars, file>>,
                  value |-> CaptureLearning(chars, file, outcome, answer)]
    /\ UNCHANGED <<pidFile, sockFile, daemon, queue, client, conn, nsig>>

\* ------------------------------------------------- whatever serves the socket
\* For classify_via_daemon the other side is whatever process holds the
\* socket: the daemon in any of its states, or any other program. Here it is
\* left free: it comes up, accepts, writes any bytes, closes and exits when it
\* likes.
ServerFrames ==
    {[hdr |-> 2, len |-> 0, got |-> 0, doc |-> JsonInvalid],
     [hdr |-> HEADER_SIZE, len |-> 65537, got |-> 0, doc |-> JsonInvalid],
     [hdr |-> HEADER_SIZE, len |-> 40, got |-> 20, doc |-> JsonInvalid],
     [hdr |-> HEADER_SIZE, len |-> 7, got |-> 7, doc |-> JsonInvalid],
     [hdr |-> HEADER_SIZE, len |-> 0, got |-> 0, doc |-> JsonInvalid],
     [hdr |-> HEADER_SIZE, len |-> 2, got |-> 2, doc |-> JsonArray],
     [hdr |-> HEADER_SIZE, len |-> 65536, got |-> 65536,
      doc |-> JsonDumps(ResultDict(ClassifyMessage(Similarities(MsgGuardrail))))],
     Frame(ErrorDict("empty text")),
     Frame([type |-> PyStr("auto")]),
     Frame(ResultDict(ClassifyMessage(Similarities(MsgCorrection)))),
     Frame(ResultDict(RejectTuple))}

\* A spawned process becomes ready: socket bound, PID file written.
AnyServer_Start(d) ==
    /\ daemon[d].pc = "start"
    /\ daemon' = [daemon EXCEPT ![d].pc = "any", ![d].listening = TRUE,
                                ![d].bound = TRUE]
    /\ sockFile' = SocketOf(d)
    /\ pidFile' = PidContent(d, d)
    /\ UNCHANGED <<queue, client, conn, nsig, call>>

AnyServer_Accept(d) ==
    /\ daemon[d].pc = "any"
    /\ queue[d] # <<>>
    /\ queue' = [queue EXCEPT ![d] = Tail(@)]
    /\ conn' = IF Head(queue[d]) = Probe THEN conn
               ELSE [conn EXCEPT ![Head(queue[d])].send = "accepted"]
    /\ UNCHANGED <<pidFile, sockFile, daemon, client, nsig, call>>

AnyServer_Write(d) ==
    /\ daemon[d].pc = "any"
    /\ \E c \in Clients, frame \in ServerFrames :
         /\ conn[c].srv = d /\ conn[c].send = "accepted" /\ conn[c].cend = "open"
         /\ conn[c].rsp = <<>>
         /\ conn' = [conn EXCEPT ![c].rsp = <<frame>>]
    /\ UNCHANGED <<pidFile, sockFile, daemon, queue, client, nsig, call>>

AnyServer_Close(d) ==
    /\ daemon[d].pc = "any"
    /\ \E c \in Clients :
         /\ conn[c].srv = d /\ conn[c].send = "accepted"
         /\ conn' = [conn EXCEPT ![c].send = "closed"]
    /\ UNCHANGED <<pidFile, sockFile, daemon, queue, client, nsig, call>>

\* The process ends, leaving its files or not.
AnyServer_Exit(d) ==
    /\ daemon[d].pc \in {"start", "any"}
    /\ daemon' = [daemon EXCEPT ![d] = Exited(d, 0, "any")]
    /\ queue' = [queue EXCEPT ![d] = <<>>]
    /\ conn' = ResetAll(d, conn)
    /\ \E keep \in BOOLEAN :
         /\ sockFile' = IF keep THEN sockFile ELSE NoFile
         /\ pidFile' = IF keep THEN pidFile ELSE NoFile
    /\ UNCHANGED <<client, nsig, call>>

AnyServerStep(d) ==
    \/ AnyServer_Start(d)
    \/ AnyServer_Accept(d)
    \/ AnyServer_Write(d)
    \/ AnyServer_Close(d)
    \/ AnyServer_Exit(d)

\* ------------------------------------------------------------ specifications
\* The files a behaviour starts with: none, or those a daemon of an earlier
\* run left behind when it was killed (its pid names no process any more).
StartFiles ==
    {<<NoFile, NoFile>>, <<PidContent(0, 0), <<"socket", 0, 0>>>>}

Init ==
    /\ \E f \in StartFiles : pidFile = f[1] /\ sockFile = f[2]
    /\ daemon = [d \in Daemons |-> DaemonStart]
    /\ queue = [d \in Daemons |-> <<>>]
    /\ client = [c \in Clients |-> ClientStart]
    /\ conn = [c \in Clients |-> ConnStart]
    /\ nsig = 0
    /\ call = NoCall

\* main() up to its accept loop
StartupStep(d) ==
    \/ RemoveStaleSocket_Exists(d)
    \/ LoadModel(d)
    \/ BindSocket(d)
    \/ WritePid_Open(d)
    \/ WritePid_Write(d)
    \/ InstallSigterm(d)
    \/ InstallSigint(d)

\* The accept loop for a connection on which no whole header arrives
ConnectionStep(d) ==
    \/ Accept(d)
    \/ IdleTimeout(d)
    \/ RecvRequest_Header(d)
    \/ SendError(d)
    \/ CloseConn(d)

\* The accept loop for a connection that sends a request
RequestStep(d) ==
    \/ RecvRequest_Body(d)
    \/ RecvRequest_Timeout(d)
    \/ Respond(d)

\* cleanup() and the crash path of __main__
ShutdownStep(d) ==
    \/ Cleanup_Close(d)
    \/ Cleanup_Socket(d)
    \/ Cleanup_Pid(d)
    \/ Crash_Socket(d)
    \/ Crash_Pid(d)

EnsureStep(c) ==
    \/ IsServerRunning_Exists(c)
    \/ IsServerRunning_Read(c)
    \/ IsServerRunning_Kill(c)
    \/ IsServerRunning_Unlink(c)
    \/ IsSocketReady_Exists(c)
    \/ IsSocketReady_Connect(c)
    \/ Ensure_SocketExists(c)
    \/ Ensure_UnlinkSocket(c)
    \/ Ensure_Spawn(c)
    \/ Ensure_Poll(c)
    \/ Ensure_Deadline(c)

\* Daemons, SessionStart hooks and signals. A hook connects and closes at
\* once (_is_socket_ready), so no request reaches a daemon here.
Next ==
    \/ \E d \in Daemons : StartupStep(d) \/ ConnectionStep(d) \/ ShutdownStep(d)
    \/ \E d \in Daemons : RemoveStaleSocket_Unlink(d) \/ Unwind_CloseConn(d)
    \/ \E d \in Daemons, sig \in {"TERM", "INT"} : Signal(d, sig)
    \/ \E c \in Clients : HookStart(c) \/ EnsureStep(c)

Spec == Init /\ [][Next]_vars

\* The first client process and the last one
First == CHOOSE c \in Clients : \A o \in Clients : c <= o
Last == CHOOSE c \in Clients : \A o \in Clients : c >= o

\* One process that calls classify_via_daemon, the daemon it starts or
\* finds, and another local process that connects to the same socket. The
\* caller removes a stale socket file before it spawns, and it is the only
\* one to spawn, so the daemon finds none.
NextServe ==
    \/ \E d \in Daemons :
          StartupStep(d) \/ ConnectionStep(d) \/ RequestStep(d) \/ ShutdownStep(d)
    \/ ClassifyStart(First) \/ EnsureStep(First) \/ ClassifyStep(First)
    \/ PeerConnect(Last) \/ PeerSend(Last) \/ PeerClose(Last)

SpecServe == Init /\ [][NextServe]_vars

\* The same, with the time a daemon spends waiting in accept().
NextIdle == NextServe \/ \E d \in Daemons : IdleWait(d)

SpecIdle == Init /\ [][NextIdle]_vars

\* One process that calls detect_patterns, against whatever serves the socket.
\* A behaviour starts as above, or with a server of an earlier session up.
InitDecide ==
    \/ Init
    \/ /\ pidFile = PidContent(First, First)
       /\ sockFile = SocketOf(First)
       /\ daemon = [d \in Daemons |->
                      IF d = First
                      THEN [DaemonStart EXCEPT !.pc = "any", !.listening = TRUE,
                                               !.bound = TRUE]
                      ELSE DaemonStart]
       /\ queue = [d \in Daemons |-> <<>>]
       /\ client = [c \in Clients |-> ClientStart]
       /\ conn = [c \in Clients |-> ConnStart]
       /\ nsig = 0
       /\ call = NoCall

NextDecide ==
    \/ DetectStart(First) \/ EnsureStep(First) \/ ClassifyStep(First)
    \/ \E d \in Daemons : AnyServerStep(d)

SpecDecide == InitDecide /\ [][NextDecide]_vars

\* The calling process keeps running: each of its blocking calls carries a
\* timeout (connect 0.5 s and 2 s, recv 5 s, the startup deadline 10 s), so a
\* step of the call that stays possible is taken. Nothing is assumed of the
\* server.
SpecDecideFair ==
    SpecDecide /\ WF_vars(EnsureStep(First) \/ ClassifyStep(First))

\* detect_patterns in front of the daemon itself: the texts it is called
\* with here pass the regular expressions or not, and the daemon the call
\* starts classifies them. Another local process sends requests of its own.
ServedTexts ==
    {<<>>,
     <<"n", "o", ",", " ", "u", "s", "e", " ", "X", " ", "n", "o", "t", " ", "Y">>,
     <<"P", "l", "e", "a", "s", "e">>}

NextDetect ==
    \/ \E d \in Daemons :
          StartupStep(d) \/ ConnectionStep(d) \/ RequestStep(d) \/ ShutdownStep(d)
    \/ DetectStartWith(First, ServedTexts)
    \/ EnsureStep(First) \/ ClassifyStep(First)
    \/ PeerConnect(Last) \/ PeerSend(Last) \/ PeerClose(Last)

SpecDetect == Init /\ [][NextDetect]_vars

\* One process that calls ensure_server_running, time and again, and the
\* daemons it spawns, with signals.
NextStart ==
    \/ EnsureStart(First) \/ EnsureStep(First)
    \/ \E d \in Daemons : StartupStep(d) \/ ConnectionStep(d) \/ ShutdownStep(d)
    \/ \E d \in Daemons : RemoveStaleSocket_Unlink(d) \/ Unwind_CloseConn(d)
    \/ \E d \in Daemons, sig \in {"TERM", "INT"} : Signal(d, sig)

SpecStart == Init /\ [][NextStart]_vars

\* One process that calls ensure_server_running, time and again, the daemons
\* it spawns, and a process that calls stop_server.
NextStop ==
    \/ EnsureStart(First) \/ EnsureStep(First)
    \/ StopStart(Last) \/ StopStep(Last)
    \/ \E d \in Daemons : StartupStep(d) \/ ConnectionStep(d) \/ ShutdownStep(d)
    \/ \E d \in Daemons : RemoveStaleSocket_Unlink(d) \/ Unwind_CloseConn(d)

SpecStop == Init /\ [][NextStop]_vars

\* ensure_server_running with its polling loop in full: the loop ends by the
\* clock alone.
EnsureStepFull(c) ==
    \/ IsServerRunning_Exists(c)
    \/ IsServerRunning_Read(c)
    \/ IsServerRunning_Kill(c)
    \/ IsServerRunning_Unlink(c)
    \/ IsSocketReady_Exists(c)
    \/ IsSocketReady_Connect(c)
    \/ Ensure_SocketExists(c)
    \/ Ensure_UnlinkSocket(c)
    \/ Ensure_Spawn(c)
    \/ Ensure_PollWithin(c, SERVER_START_TIMEOUT)
    \/ Ensure_Deadline(c)

\* One process that calls ensure_server_running, time and again, with the
\* whole polling loop, and the daemons it spawns. No signal is sent.
NextPoll ==
    \/ EnsureStart(First) \/ EnsureStepFull(First)
    \/ \E d \in Daemons : StartupStep(d) \/ ConnectionStep(d) \/ ShutdownStep(d)

SpecPoll == Init /\ [][NextPoll]_vars

\* The calling process keeps running: each of its steps is taken in the end
\* (sleep returns, connect gives up after 0.5 s, line 61).
SpecPollFair == SpecPoll /\ WF_vars(EnsureStepFull(First))

\* The classifier's two functions, evaluated on any input.
NextClassify == Call_ClassifyMessage \/ Call_ScoreToConfidence

SpecClassify == Init /\ [][NextClassify]_vars

\* cosine_similarity by itself
SpecSimilarity == Init /\ [][Call_CosineSimilarity]_vars

\* The UserPromptSubmit hook by itself
SpecCapture == Init /\ [][Call_CaptureLearning]_vars

\* ------------------------------------------------------------------ claims

\* C5: at most one daemon process is alive per socket path in every reachable
\* state, also when clients call ensure_server_running concurrently or while a
\* spawned daemon is still loading its model.
C5_AtMostOneLiveDaemon == Cardinality(LiveDaemons) <= 1

\* C7: _is_server_running returns False when the PID file is absent; True, the
\* file left in place, when the file holds the id of a live process; and False,
\* the file deleted, when it holds the id of a process that does not exist.
C7_IsServerRunning ==
    \A c \in Clients :
        LET o == client[c].obs IN
        /\ o.exists = "no" => o.ret = "False" /\ ~o.unlinked
        /\ o.alive = "yes" => o.ret = "True" /\ ~o.unlinked
        /\ o.alive = "no" /\ client[c].pc # "irs_unlink" =>
               o.ret = "False" /\ o.unlinked /\ o.after = "no"

\* C7 witness: a call that read the id of a dead process has returned False and
\* the PID file is gone.
C7_Witness ==
    \E c \in Clients :
        /\ client[c].obs.content = "pid" /\ client[c].obs.alive = "no"
        /\ client[c].obs.ret = "False" /\ client[c].obs.unlinked
        /\ ~Exists(pidFile)

\* C8: a daemon that has bound its socket and exits because of SIGTERM, SIGINT
\* or idle timeout has run cleanup before it exits: its listening socket is
\* closed and neither its socket file nor its PID file is left.
C8_CleanupBeforeExit ==
    \A d \in Daemons :
        daemon[d].pc = "exited" /\ daemon[d].bound /\ daemon[d].why \in {"signal", "idle"}
            => /\ daemon[d].cleaned
               /\ sockFile # SocketOf(d)
               /\ ~(pidFile[1] = "pid" /\ pidFile[2] = d)

\* The response the daemon owes a request that arrives whole and in time.
Answer(req) ==
    IF req.len > 65536 THEN ErrorDict("Message too large")
    ELSE IF HandleRequest(req.doc).raised
    THEN ErrorDict(HandleRequest(req.doc).exc)
    ELSE HandleRequest(req.doc).reply

\* The ways classify_via_daemon returns after it has read a whole response.
Completed == {"ok", "error-key", "json", "not-object"}

\* C6: for every non-empty text whose exchange with the daemon completes, the
\* tuple classify_via_daemon returns equals, field for field, the tuple
\* classify_message produced in the daemon, the reject tuple included.
C6_ResultFlowsBack ==
    \A c \in Clients :
        /\ client[c].kind = "classify" /\ client[c].pc = "return"
        /\ client[c].text # "" /\ client[c].via \in Completed
        /\ conn[c].produced # <<>>
        => ~client[c].raised /\ client[c].result = conn[c].produced[1]

\* C6 witness: a call has returned the guardrail tuple the daemon produced.
C6_Witness ==
    \E c \in Clients :
        /\ client[c].kind = "classify" /\ client[c].pc = "return"
        /\ client[c].via = "ok" /\ conn[c].produced # <<>>
        /\ client[c].result = conn[c].produced[1]
        /\ client[c].result[1] = PyStr("guardrail")
        /\ client[c].result[5] = PyInt(120)

\* C9: a failure while one connection is handled never stops the daemon and
\* never changes later answers: the daemon sends {"error": ...} if the peer
\* can still be written to, closes the connection and returns to accept; it
\* exits only by idle timeout; and every response is the one its own request
\* is owed, whatever failed before.
C9_FailureIsContained ==
    /\ [](\A d \in Daemons :
            /\ daemon[d].failed /\ daemon[d].pc = "exited" => daemon[d].why = "idle"
            /\ daemon[d].pc = "close_conn" /\ daemon[d].exc # "" /\ CanSend(d) =>
                  conn[daemon[d].cur].rsp = <<Frame(ErrorDict(daemon[d].exc))>>)
    /\ [](\A c \in Clients :
            conn[c].rsp # <<>> =>
               conn[c].rsp \in {<<Frame(Answer(conn[c].req))>>,
                                <<Frame(ErrorDict("timed out"))>>})
    /\ [][\A d \in Daemons :
            /\ daemon[d].pc = "send_err" => daemon'[d].pc \in {"send_err", "close_conn"}
            /\ daemon[d].pc = "close_conn" => daemon'[d].pc \in {"close_conn", "accept"}]_vars

\* C9 witness: after a connection has failed, the daemon has answered a
\* well-formed request with the classification of its text.
C9_Witness ==
    \E d \in Daemons, c \in Clients :
        /\ daemon[d].failed /\ daemon[d].pc = "close_conn" /\ daemon[d].cur = c
        /\ daemon[d].exc = ""
        /\ conn[c].req = Request(MsgCorrection)
        /\ conn[c].rsp = <<Frame(ResultDict(ClassifyMessage(Similarities(MsgCorrection))))>>

\* C10: a request that declares more than 65536 bytes is rejected before any
\* byte of its body is read, its sender gets {"error": ...} and the daemon goes
\* on; a request that declares 65536 bytes or fewer is read in full.
C10_OversizeRejected ==
    \A d \in Daemons :
        LET c == daemon[d].cur IN
        /\ (/\ daemon[d].pc \in {"recv_body", "respond", "send_err", "close_conn"}
            /\ c \in Clients /\ daemon[d].hdr = HEADER_SIZE
            /\ conn[c].req.len > 65536)
           => /\ daemon[d].body = 0
              /\ daemon[d].pc \in {"send_err", "close_conn"}
              /\ daemon[d].pc = "close_conn" /\ conn[c].cend = "open" =>
                     conn[c].rsp = <<Frame(ErrorDict("Message too large"))>>
        /\ daemon[d].pc = "respond" =>
              conn[c].req.len <= 65536 /\ daemon[d].body = conn[c].req.len

\* C10 witness: the daemon has sent the error for an oversized request, no
\* byte of the body read, and is about to close the connection.
C10_Witness ==
    \E d \in Daemons :
        /\ daemon[d].pc = "close_conn" /\ daemon[d].cur \in Clients
        /\ daemon[d].exc = "Message too large" /\ daemon[d].body = 0
        /\ conn[daemon[d].cur].req.len = 65537
        /\ conn[daemon[d].cur].sent > HEADER_SIZE
        /\ conn[daemon[d].cur].rsp = <<Frame(ErrorDict("Message too large"))>>

\* The returns of classify_via_daemon other than that of a classification.
Failures ==
    {"ensure-false", "ensure-raise", "connect", "send", "disconnect",
     "read-timeout", "too-large", "json", "not-object", "error-key"}

\* Whether c's call of classify_via_daemon got no usable response: none,
\* part of one, one that declares more than 65536 bytes, one that is no JSON
\* object, or one with an "error" key.
NoUsableResponse(c) ==
    IF conn[c].rsp = <<>> THEN TRUE
    ELSE \/ conn[c].rsp[1].hdr < HEADER_SIZE
         \/ conn[c].rsp[1].len > 65536
         \/ conn[c].rsp[1].got < conn[c].rsp[1].len
         \/ conn[c].rsp[1].doc.doc # "object"
         \/ "error" \in DOMAIN conn[c].rsp[1].doc.members

\* C1: classify_via_daemon never raises, and whenever a step of it fails
\* (ensure_server_running False or raising, connect refused or timed out, read
\* timed out, server gone mid-frame, declared length above 65536, undecodable
\* JSON, an "error" key) it returns the fallback tuple.
C1_NeverRaises ==
    \A c \in Clients :
        client[c].pc = "return" /\ client[c].via \in Failures \cup {"ok"}
        => /\ ~client[c].raised
           /\ Len(client[c].result) = 5
           /\ client[c].via \in Failures => client[c].result = RejectTuple
           /\ NoUsableResponse(c) => client[c].result = RejectTuple

\* C1 witness: a response that declares 65537 bytes has been answered with the
\* fallback tuple.
C1_Witness ==
    \E c \in Clients :
        /\ client[c].pc = "return" /\ client[c].via = "too-large"
        /\ conn[c].rsp # <<>> /\ conn[c].rsp[1].len = 65537
        /\ ~client[c].raised /\ client[c].result = RejectTuple

\* C2: for every text that contains "remember:" in any letter case,
\* detect_patterns returns ("explicit", "remember:", 0.90, "correction", 120),
\* whatever else the text matches and whether or not a daemon is there; the
\* daemon is not asked.
C2_MarkerWins ==
    \A c \in Clients :
        client[c].kind = "detect" /\ client[c].pc = "return"
        /\ HasMarker(client[c].chars)
        => /\ ~client[c].raised
           /\ client[c].result = ExplicitTuple
           /\ conn[c] = ConnStart

\* C2 witness: a text with the marker in capitals that ends with "?" got the
\* explicit tuple while nothing listened on the socket.
C2_Witness ==
    \E c \in Clients :
        /\ client[c].kind = "detect" /\ client[c].pc = "return"
        /\ LitAt(client[c].chars, 1, <<"r", "e", "m", "e", "m", "b", "e", "r", ":">>)
        /\ client[c].chars[1] = "R" /\ client[c].chars[2] = "E"
        /\ FALSE_POSITIVE_PATTERNS(client[c].chars)[1]
        /\ Listener = 0
        /\ client[c].result = ExplicitTuple

\* C3: for every text without the marker that matches at least one of
\* FALSE_POSITIVE_PATTERNS, detect_patterns returns the reject tuple and the
\* daemon is not asked.
C3_FalsePositiveRejected ==
    \A c \in Clients :
        client[c].kind = "detect" /\ client[c].pc = "return"
        /\ ~HasMarker(client[c].chars)
        /\ MatchesFalsePositive(client[c].chars)
        => /\ ~client[c].raised
           /\ client[c].result = RejectTuple
           /\ conn[c] = ConnStart

\* C3 witness: a text with a task verb and its object got the reject tuple
\* while a server was listening.
C3_Witness ==
    \E c \in Clients :
        /\ client[c].kind = "detect" /\ client[c].pc = "return"
        /\ ~HasMarker(client[c].chars)
        /\ FALSE_POSITIVE_PATTERNS(client[c].chars)[3]
        /\ Listener # 0
        /\ client[c].result = RejectTuple

BestOf(similarities) == similarities[BestIndex(similarities)]

\* C11: classify_message returns a non-null type exactly when the best-scoring
\* category is correction, guardrail or positive, its similarity is at least
\* 0.45, 0.50 and 0.50 respectively, and its margin over the not_learning
\* similarity (0 when there is no not_learning anchor) is at least 0.02; in
\* every other case, a best category of another name included, it returns the
\* reject tuple (None, "", 0.0, "correction", 90).
C11_AcceptsExactlyWhen ==
    call.fn = "classify_message" =>
        LET best == BestOf(call.args)
            accepts ==
                /\ best[1] \in {"correction", "guardrail", "positive"}
                /\ best[2] >= (IF best[1] = "correction" THEN 450 ELSE 500)
                /\ best[2] - ScoreOf(call.args, "not_learning") >= 20
        IN  /\ (call.value[1] # PyNone) <=> accepts
            /\ ~accepts => call.value = <<PyNone, PyStr(""), PyFloat(0),
                                          PyStr("correction"), PyInt(90)>>

\* A guardrail exactly at its threshold and exactly 0.02 above not_learning is
\* accepted.
C11_Witness ==
    /\ call.fn = "classify_message"
    /\ BestOf(call.args) = <<"guardrail", 500>>
    /\ ScoreOf(call.args, "not_learning") = 480
    /\ \E i \in 1..Len(call.args) : call.args[i][1] = "not_learning"
    /\ call.value[1] = PyStr("guardrail")

\* C12: when the category with the highest similarity is not_learning,
\* classify_message returns the reject tuple whatever the similarities of
\* correction, guardrail and positive are, one at or above its threshold
\* included.
C12_NotLearningRejects ==
    (call.fn = "classify_message" /\ BestOf(call.args)[1] = "not_learning")
        => call.value = RejectTuple

\* not_learning scores highest while correction is above its threshold.
C12_Witness ==
    /\ call.fn = "classify_message"
    /\ BestOf(call.args) = <<"not_learning", 1000>>
    /\ ScoreOf(call.args, "correction") = 500
    /\ call.value[1] = PyNone

\* C13: when the best category is correction, guardrail or positive and its
\* similarity less the not_learning similarity is below 0.02, classify_message
\* returns the reject tuple, also when the best similarity is at or above the
\* category's threshold.
C13_MarginRejects ==
    \A category \in {"correction", "guardrail", "positive"} :
        ( /\ call.fn = "classify_message"
          /\ BestOf(call.args)[1] = category
          /\ BestOf(call.args)[2] - ScoreOf(call.args, "not_learning") < 20 )
            => call.value = RejectTuple

\* positive scores best, at its threshold, and 0.019 above not_learning.
C13_Witness ==
    /\ call.fn = "classify_message"
    /\ BestOf(call.args) = <<"positive", 500>>
    /\ ScoreOf(call.args, "not_learning") = 481
    /\ call.value[1] = PyNone

\* C14: an accepted result has the shape of its winning category: correction
\* gives type "auto", sentiment "correction", decay 90; guardrail gives type
\* "guardrail", sentiment "correction", decay 120; positive gives type
\* "positive", sentiment "positive", decay 90; the evidence is "embedding:"
\* followed by the name of the winning category.
C14_OutputShape ==
    (call.fn = "classify_message" /\ call.value[1] # PyNone) =>
        LET winner == BestOf(call.args)[1]
            shape == <<call.value[1], call.value[2], call.value[4], call.value[5]>>
        IN  /\ winner \in {"correction", "guardrail", "positive"}
            /\ winner = "correction" =>
                 shape = <<PyStr("auto"), PyStr("embedding:correction"),
                           PyStr("correction"), PyInt(90)>>
            /\ winner = "guardrail" =>
                 shape = <<PyStr("guardrail"), PyStr("embedding:guardrail"),
                           PyStr("correction"), PyInt(120)>>
            /\ winner = "positive" =>
                 shape = <<PyStr("positive"), PyStr("embedding:positive"),
                           PyStr("positive"), PyInt(90)>>

\* A guardrail is accepted.
C14_Witness ==
    /\ call.fn = "classify_message"
    /\ BestOf(call.args)[1] = "guardrail"
    /\ call.value[5] = PyInt(120)

\* The band of confidences of an accepted type, in units of 1e-5
BandOf(type) ==
    IF type = PyStr("auto") THEN <<60000, 85000>>
    ELSE IF type = PyStr("guardrail") THEN <<75000, 90000>>
    ELSE <<65000, 80000>>

\* C15: _score_to_confidence(score, min, max) is min + (max - min) *
\* clamp(score, 0, 1): min at score 0 and below, max at score 1 and above,
\* and not less than its value at any lower score; and the confidence of
\* every accepted classify_message result lies in the band of its category.
C15_ScoreToConfidence ==
    /\ call.fn = "_score_to_confidence" =>
         LET score == call.args[1]
             min == call.args[2]
             max == call.args[3]
             value == call.value[3]
         IN  /\ score <= 0 => value = min
             /\ score >= 1000 => value = max
             /\ (score >= 0 /\ score <= 1000) =>
                  1000 * (value - min) = (max - min) * score
             /\ \A lower \in Scores :
                  lower <= score => ScoreToConfidence(lower, min, max) <= value
    /\ (call.fn = "classify_message" /\ call.value[1] # PyNone) =>
         /\ call.value[3][1] = "float"
         /\ call.value[3][3] >= BandOf(call.value[1])[1]
         /\ call.value[3][3] <= BandOf(call.value[1])[2]

\* A correction whose similarity is above 1 is accepted with the top of its
\* band.
C15_Witness ==
    /\ call.fn = "classify_message"
    /\ BestOf(call.args) = <<"correction", 1001>>
    /\ call.value[1] = PyStr("auto")
    /\ call.value[3] = PyFloat(85000)


\* What the call of ensure_server_running made by cl has done so far
Events(cl) == {cl.trace[i] : i \in 1..Len(cl.trace)}
LastEvent(cl) == IF cl.trace = <<>> THEN "" ELSE cl.trace[Len(cl.trace)]

\* The steps of the first process
StepOfFirst == client'[First] # client[First]

\* No file is created or deleted and no process is started.
NothingTouched ==
    /\ pidFile' = pidFile
    /\ sockFile' = sockFile
    /\ \A d \in Daemons : daemon'[d].pc = "none" <=> daemon[d].pc = "none"

\* C16: when _is_server_running finds the PID file naming a live process and
\* _is_socket_ready finds the socket file and connects, ensure_server_running
\* returns True at once: it has deleted no file, has not looked for a
\* launcher and has spawned nothing.
C16_FastPath ==
    /\ [](LET cl == client[First]
          IN  (/\ cl.kind = "ensure"
               /\ Len(cl.trace) >= 2
               /\ <<Head(cl.trace), Head(Tail(cl.trace))>> = <<"running", "ready">>)
                => /\ cl.pc = "return"
                   /\ cl.ensured = "True"
                   /\ cl.trace = <<"running", "ready">>)
    /\ [][(/\ StepOfFirst
           /\ client'[First].kind = "ensure"
           /\ client'[First].trace \in {<<>>, <<"running">>, <<"running", "ready">>})
          => NothingTouched]_vars

\* A call has returned by the fast path.
C16_Witness ==
    /\ client[First].kind = "ensure"
    /\ client[First].pc = "return"
    /\ client[First].ensured = "True"
    /\ client[First].trace = <<"running", "ready">>

PollPcs == {"e_poll", "isr_exists", "isr_connect"}
Polling(cl) == cl.kind = "ensure" /\ cl.pc \in PollPcs /\ "spawned" \in Events(cl)

\* C18: after it has spawned a daemon, ensure_server_running polls
\* _is_socket_ready every 0.3 s and terminates: it returns True as soon as a
\* poll begun before the 10 s deadline connects, and False once the deadline
\* has passed with no poll connecting; one call makes at most 34 polls and
\* spawns at most one process.
C18_PollingTerminates ==
    /\ [](LET cl == client[First]
          IN  cl.kind = "ensure" =>
                /\ cl.polls <= 34
                /\ Cardinality({i \in 1..Len(cl.trace) : cl.trace[i] = "spawned"}) <= 1
                /\ (cl.pc \in PollPcs /\ cl.polls > 0) => cl.waited >= 3 * cl.polls
                                                           \/ cl.waited = 100)
    /\ [][(StepOfFirst /\ Polling(client[First])) =>
            /\ \A d \in Daemons : daemon'[d].pc = "none" <=> daemon[d].pc = "none"
            /\ (client[First].pc = "isr_connect" /\ Admits(Listener))
                 => (client'[First].pc = "return" /\ client'[First].ensured = "True")
            /\ (client[First].pc = "e_poll" /\ client[First].waited >= 100)
                 => (client'[First].pc = "return" /\ client'[First].ensured = "False")
            /\ client'[First].pc = "return" =>
                 \/ client[First].pc = "isr_connect" /\ Admits(Listener)
                 \/ client[First].pc = "e_poll" /\ client[First].waited >= 100]_vars
    /\ (Polling(client[First]) ~> client[First].pc = "return")

\* The 34th poll of a call is under way.
C18_Witness ==
    /\ Polling(client[First])
    /\ client[First].polls = 34
    /\ client[First].pc = "isr_connect"


Handling == {"recv_hdr", "recv_body", "respond", "send_err", "close_conn"}

\* C20: a daemon stops of itself only when accept() times out, having waited
\* the whole idle window since it came to that accept() with no connection to
\* take; a timeout on the connection in hand leads to the error response and
\* back to accept(), never to shutdown; and no daemon that has a connection
\* in hand stops on idle timeout.
C20_IdleStopOnly ==
    /\ [][\A d \in Daemons :
            /\ (daemon'[d].why = "idle" /\ daemon[d].why # "idle") =>
                 /\ daemon[d].pc = "accept"
                 /\ daemon[d].cur = NoConn
                 /\ queue[d] = <<>>
                 /\ daemon'[d].quiet >= 3600
            /\ daemon[d].pc \in Handling =>
                 /\ daemon'[d].pc \in Handling \cup {"accept"}
                 /\ daemon'[d].why = "none"
            /\ (daemon[d].pc \in Handling /\ daemon'[d].exc = "timed out")
                 => daemon'[d].pc \in {"send_err", "close_conn"}
            /\ (daemon[d].pc \in Handling /\ daemon'[d].pc = "accept")
                 => (daemon'[d].idle = 0 /\ daemon'[d].quiet = 0)]_vars
    /\ [](\A d \in Daemons :
            (daemon[d].pc = "exited" /\ daemon[d].status = 0) => daemon[d].why = "idle")

\* A daemon that waited half the window, then had a connection fail, has
\* waited the whole window again and stops.
C20_Witness ==
    \E d \in Daemons :
        /\ daemon[d].pc = "cl_close"
        /\ daemon[d].why = "idle"
        /\ daemon[d].failed
        /\ daemon[d].quiet = 3600


\* The pcs of the crash path of __main__ (lines 177-190)
CrashPcs == {"cr_sock", "cr_pid"}

\* C21: a daemon whose model load, anchor computation, bind or listen fails
\* never accepts a connection and, unless a signal ends it first, goes through
\* the crash path to an exit with a status other than 0; when it has exited,
\* no socket file of its own and no PID file naming it exists, and with no
\* other daemon started neither file exists at all.
C21_StartupFailure ==
    /\ [][\A d \in Daemons :
            (daemon[d].why = "crash" /\ daemon[d].pc # "exited") =>
                /\ daemon[d].pc \in CrashPcs
                /\ daemon'[d].pc \in CrashPcs \cup {"exited"}
                /\ ~daemon'[d].listening
                /\ queue'[d] = <<>>
                /\ daemon'[d].pc = "exited" => daemon'[d].status # 0]_vars
    /\ [](\A d \in Daemons :
            (daemon[d].pc = "exited" /\ daemon[d].why = "crash") =>
                /\ daemon[d].status # 0
                /\ ~daemon[d].failed
                /\ sockFile # SocketOf(d) \/ nsig > 0
                /\ pidFile[1] = "pid" => pidFile[2] # d
                /\ (nsig = 0 /\ \A e \in Daemons \ {d} : daemon[e].pc = "none")
                     => (~Exists(sockFile) /\ ~Exists(pidFile)))

\* A daemon whose listen failed after its bind has exited with status 1 and
\* nothing is left.
C21_Witness ==
    \E d \in Daemons :
        /\ daemon[d].pc = "exited"
        /\ daemon[d].why = "crash"
        /\ daemon[d].bound
        /\ daemon[d].status = 1
        /\ nsig = 0
        /\ ~Exists(sockFile)
        /\ ~Exists(pidFile)

\* ---- C22 ----
\* Inside classify_via_daemon: the call has passed the triage of
\* detect_patterns and has not returned.
InClassifyViaDaemon == client[First].pc \notin {"idle", "return"}

\* The call returned a tuple of five values and raised nothing.
ReturnedFiveTuple ==
    /\ client[First].pc = "return"
    /\ ~client[First].raised
    /\ Len(client[First].result) = 5

\* C22: every call of classify_via_daemon returns a tuple of five values,
\* whatever the server does (absent, starting, accepting and silent, writing
\* part of a frame, closing or exiting in the middle of a response): with the
\* timeouts firing, no behaviour of the server keeps the caller forever.
C22_AlwaysReturns == InClassifyViaDaemon ~> ReturnedFiveTuple

\* A server accepted the connection and never answered: the call returned
\* the fallback tuple on the read timeout.
C22_Witness ==
    /\ ReturnedFiveTuple
    /\ client[First].via = "read-timeout"
    /\ client[First].result = RejectTuple

\* ---- C23 ----
\* The request has no "text" member, or an empty string for it.
NoText(document) ==
    /\ document.doc = "object"
    /\ "text" \in DOMAIN document.members => document.members.text = JString("")

\* C23: the daemon answers a request whose "text" is empty or missing with
\* {"error": "empty text"} and does not call the classifier for it; the
\* client turns that answer into the fallback tuple, so detect_patterns("")
\* returns (None, "", 0.0, "correction", 90) with the daemon running and
\* with no daemon to be had.
C23_EmptyText ==
    /\ [][\A d \in Daemons :
            (/\ daemon[d].pc = "respond"
             /\ daemon'[d].pc # "respond"
             /\ NoText(conn[daemon[d].cur].req.doc)) =>
               LET c == daemon[d].cur IN
               /\ conn'[c].produced = <<>>
               /\ IF CanSend(d)
                  THEN /\ conn'[c].rsp =
                            Append(conn[c].rsp, Frame(ErrorDict("empty text")))
                       /\ daemon'[d].pc = "close_conn"
                  ELSE conn'[c].rsp = conn[c].rsp]_vars
    /\ [](\A c \in Clients :
            (/\ client[c].kind = "detect"
             /\ client[c].chars = <<>>
             /\ client[c].pc = "return") =>
               /\ ~client[c].raised
               /\ client[c].result = RejectTuple)

\* detect_patterns("") got the daemon's error answer and returned the
\* fallback tuple.
C23_Witness ==
    /\ client[First].kind = "detect"
    /\ client[First].chars = <<>>
    /\ client[First].pc = "return"
    /\ client[First].via = "error-key"
    /\ client[First].result = RejectTuple

\* ---- C24 ----
\* The vector has length 1 (its squared length is 100 in units of 0.01).
IsUnit(a) == a[1] * a[1] + a[2] * a[2] = 100

\* b is a turned by a quarter of a circle; b is a turned by half a circle.
QuarterTurn(a, b) == b = <<0 - a[2], a[1]>> \/ b = <<a[2], 0 - a[1]>>
HalfTurn(a, b) == b = <<0 - a[1], 0 - a[2]>>

CalledCosine == call.fn = "cosine_similarity"

\* C24 as stated: cosine_similarity of a vector with itself is 1.0, of two
\* orthogonal unit vectors 0.0, of two opposite unit vectors -1.0.
C24_AnyVectorWithItself ==
    CalledCosine =>
        LET a == call.args[1]
            b == call.args[2]
        IN /\ a = b => call.value = 100
           /\ (IsUnit(a) /\ QuarterTurn(a, b)) => call.value = 0
           /\ (IsUnit(a) /\ HalfTurn(a, b)) => call.value = 0 - 100

\* C24, amended: cosine_similarity of a unit vector with itself is 1.0, of
\* two orthogonal unit vectors 0.0, of two opposite unit vectors -1.0.
C24_UnitVectors ==
    CalledCosine =>
        LET a == call.args[1]
            b == call.args[2]
        IN /\ (IsUnit(a) /\ a = b) => call.value = 100
           /\ (IsUnit(a) /\ QuarterTurn(a, b)) => call.value = 0
           /\ (IsUnit(a) /\ HalfTurn(a, b)) => call.value = 0 - 100

\* The three cases on vectors with two non-zero coordinates.
C24_Witness ==
    /\ CalledCosine
    /\ call.args[1] = <<6, 8>>
    /\ call.args[2] = <<-6, -8>>
    /\ call.value = 0 - 100

\* ---- C25 ----
CalledCapture == call.fn = "capture_learning"

\* A prompt above the limit without the marker is not passed to
\* detect_patterns and leaves the queue file as it was.
LongUnmarkedSkipped ==
    CalledCapture =>
        LET chars == call.args[1] IN
        (Len(chars) > MAX_CAPTURE_PROMPT_LENGTH /\ ~HasMarker(chars)) =>
            /\ call.value.detected = <<>>
            /\ call.value.file = call.args[2]

\* A prompt with the marker, in any letter case and of any length, adds one
\* item of type "explicit" to the queue.
MarkedQueuedOnce ==
    CalledCapture =>
        LET chars == call.args[1] IN
        HasMarker(chars) =>
            call.value.file =
                QueueFile(Append(call.args[2].items, QueueItem(chars, ExplicitTuple)))

\* C25: the hook never passes to detect_patterns, and never queues, a prompt
\* longer than MAX_CAPTURE_PROMPT_LENGTH that has no "remember:" in it; every
\* prompt with "remember:" in it, in any letter case and of any length, makes
\* the hook append exactly one item of type "explicit" to the queue.
C25_LongSkippedMarkerQueued == LongUnmarkedSkipped /\ MarkedQueuedOnce

\* ---- C26 ----
\* A call of detect_patterns has returned.
Detected(c) == client[c].kind = "detect" /\ client[c].pc = "return"

\* C26: detect_patterns returns the type None for every text of at most 4
\* characters, whatever the daemon classifies it as. (Stated for the texts
\* of 1 to 4 characters: the daemon classifies no empty text.)
C26_ShortRejected ==
    \A c \in Clients :
        (Detected(c) /\ Len(client[c].chars) \in 1..4) =>
            /\ ~client[c].raised
            /\ client[c].result[1] = PyNone

\* ---- C27 ----
\* The text ends with a full-width question mark or with a question particle.
EndsAsCJKQuestion(chars) ==
    /\ chars # <<>>
    /\ chars[Len(chars)] \in {FullWidthQuestionMark, QuestionParticle}

\* C27: detect_patterns returns the type None for every text that ends with
\* a full-width question mark or with a CJK question particle, whatever the
\* daemon classifies it as. (Stated for the texts without "remember:", which
\* is looked for first and decides alone.)
C27_CJKQuestionRejected ==
    \A c \in Clients :
        (/\ Detected(c)
         /\ EndsAsCJKQuestion(client[c].chars)
         /\ ~HasMarker(client[c].chars)) =>
            /\ ~client[c].raised
            /\ client[c].result[1] = PyNone

\* ---- C28 ----
\* A regular expression decides the text: the marker or a false-positive
\* pattern is found in it.
RegexDecides(chars) == HasMarker(chars) \/ MatchesFalsePositive(chars)

\* C28: in a call of detect_patterns where the explicit marker or a
\* structural false-positive pattern matches, classify_via_daemon is never
\* invoked: the call is at no step of it (no probe of the daemon, no spawn,
\* no connection), and the one step the call consists of leaves the PID
\* file, the socket file, the daemons and the connections as they were.
C28_RegexDecidesAlone ==
    /\ [](\A c \in Clients :
            (client[c].kind = "detect" /\ RegexDecides(client[c].chars)) =>
                /\ client[c].pc = "return"
                /\ client[c].via \in {"marker", "false-positive"}
                /\ client[c].spawned = 0
                /\ conn[c] = ConnStart)
    /\ [][\A c \in Clients :
            (/\ client[c].pc = "idle"
             /\ client'[c].kind = "detect"
             /\ RegexDecides(client'[c].chars)) =>
                UNCHANGED <<pidFile, sockFile, daemon, queue, conn>>]_vars

\* A call decided by a false-positive pattern returned with no daemon
\* started and no file made.
C28_Witness ==
    /\ Detected(First)
    /\ client[First].via = "false-positive"
    /\ ~HasMarker(client[First].chars)
    /\ \A d \in Daemons : daemon[d].pc = "none"
    /\ ~Exists(pidFile) /\ ~Exists(sockFile)

\* ---- C29 ----
\* The connections daemon d has accepted and not closed.
OpenIn(d) == {c \in Clients : conn[c].srv = d /\ conn[c].send = "accepted"}

\* C29: the daemon handles its connections strictly one at a time. It holds
\* at most one accepted connection, the one it is working on, and none when
\* it calls accept; from an accepted connection it reads at most one request
\* (one header and the body that header declares, the reading never resumed
\* once the request is handled) and writes at most one response frame to it;
\* the connection is closed before accept is called again, also when the
\* handling raised an exception.
C29_OneAtATime ==
    /\ [](\A d \in Daemons :
            /\ Cardinality(OpenIn(d)) <= 1
            /\ \A c \in OpenIn(d) : daemon[d].cur = c
            /\ daemon[d].pc = "accept" => (OpenIn(d) = {} /\ daemon[d].cur = NoConn)
            /\ daemon[d].hdr <= HEADER_SIZE
            /\ daemon[d].body <= daemon[d].mlen)
    /\ [](\A c \in Clients : Len(conn[c].rsp) <= 1)
    /\ [][\A d \in Daemons :
            /\ (daemon'[d].pc = "recv_hdr" /\ daemon[d].pc # "recv_hdr")
                  => (daemon[d].pc = "accept" /\ daemon'[d].hdr = 0)
            /\ (daemon'[d].pc = "recv_body") => daemon[d].pc \in {"recv_hdr", "recv_body"}
            /\ (daemon'[d].pc = "accept" /\ daemon[d].cur \in Clients)
                  => conn'[daemon[d].cur].send = "closed"]_vars

\* The daemon is reading the request of a second connection after the
\* handling of a first one raised an exception and that one was closed.
C29_Witness ==
    \E d \in Daemons, c \in Clients, e \in Clients :
        /\ c # e
        /\ daemon[d].failed
        /\ daemon[d].pc = "recv_body"
        /\ daemon[d].cur = e
        /\ conn[c].srv = d /\ conn[c].send = "closed"
        /\ conn[e].srv = d /\ conn[e].send = "accepted"

\* ---- C30 ----
\* Daemon d has written its PID and has not begun cleanup: it installs its
\* handlers or is in the accept loop.
Serving(d) ==
    daemon[d].pc \in {"sig_term", "sig_int", "accept", "recv_hdr", "recv_body",
                      "respond", "send_err", "close_conn"}

\* Daemon d has the model loaded and the anchors computed.
AbleToClassify(d) == daemon[d].loaded /\ daemon[d].anchors

\* C30: a daemon starts in the order remove stale socket, load model,
\* compute anchors, bind and listen, write PID file. The stale socket is
\* removed before the model is loaded; the socket is never bound before the
\* model is loaded and the anchors are computed; the PID file is never
\* written before the socket is listening; so a running daemon that has
\* written its PID and has not begun cleanup has its socket bound and
\* listening and is able to classify.
C30_StartupOrder ==
    /\ [][\A d \in Daemons :
            /\ (daemon[d].pc = "rm_stale" /\ sockFile' # sockFile)
                  => (~daemon[d].loaded /\ ~daemon[d].bound)
            /\ ((~daemon[d].bound /\ daemon'[d].bound) \/
                (sockFile' # sockFile /\ sockFile' = SocketOf(d)))
                  => AbleToClassify(d)
            /\ (pidFile' # pidFile /\ pidFile'[1] \in {"pid", "empty"}
                /\ daemon[d].pc \in {"write_pid", "write_pid2"}
                /\ daemon'[d].pc # daemon[d].pc)
                  => (daemon[d].listening /\ daemon[d].bound)
            /\ (pidFile' # pidFile /\ pidFile'[1] = "pid")
                  => \E e \in Daemons : pidFile'[2] = e /\ daemon[e].listening]_vars
    /\ [](\A d \in Daemons :
            /\ daemon[d].listening => (daemon[d].bound /\ AbleToClassify(d))
            /\ (Live(d) /\ daemon[d].bound) => AbleToClassify(d)
            /\ daemon[d].pc \in {"start", "rm_stale", "load"}
                  => (~daemon[d].bound /\ ~(pidFile[1] = "pid" /\ pidFile[2] = d))
            /\ Serving(d)
                  => (daemon[d].bound /\ daemon[d].listening /\ AbleToClassify(d)))

\* A daemon waits in accept with its PID in the PID file and its socket at
\* the path.
C30_Witness ==
    \E d \in Daemons :
        /\ daemon[d].pc = "accept"
        /\ pidFile[1] = "pid" /\ pidFile[2] = d
        /\ sockFile = SocketOf(d)
        /\ daemon[d].listening /\ AbleToClassify(d)

\* ---- C31 ----
\* C31: after every call of _is_server_running that returns False no PID file
\* is at the PID path, whether the file was absent, named a dead process or
\* held content that is not a process id.
C31_FalseLeavesNoPidFile ==
    \A c \in Clients :
        client[c].obs.ret = "False" => client[c].obs.after = "no"

\* ---- C32 ----
\* C32: ensure_server_running unlinks orphaned socket files only: its unlink
\* never removes a socket file on which a live daemon is listening, however
\* its existence test, its liveness test and its unlink fall between the
\* daemon's bind and write_pid.
C32_ClientUnlinksOrphansOnly ==
    [][\A c \in Clients :
         (/\ client[c].pc = "e_unlink_sock"
          /\ client'[c].pc # "e_unlink_sock"
          /\ Exists(sockFile) /\ ~Exists(sockFile'))
            => Listener = 0]_vars

\* ---- C33 ----
\* Daemon d takes a step of its startup removal, its cleanup or its crash
\* path.
RemovalPcs == {"rm_stale", "h_sock", "cl_sock", "h_pid", "cl_pid", "cr_sock", "cr_pid"}
RemovalStepOf(d) == daemon[d].pc \in RemovalPcs /\ daemon'[d] # daemon[d]

\* C33: a daemon removes its own files only: neither the removal of a
\* pre-existing socket file at its start, nor cleanup, nor the crash path
\* deletes a socket file on which another live daemon listens or a PID file
\* that holds another live daemon's process id.
C33_DaemonRemovesOwnFilesOnly ==
    [][\A d \in Daemons :
         RemovalStepOf(d) =>
            /\ (Exists(sockFile) /\ ~Exists(sockFile')) => Listener \in {0, d}
            /\ (Exists(pidFile) /\ ~Exists(pidFile'))
                  => ~(pidFile[1] = "pid" /\ pidFile[2] \in LiveDaemons \ {d})]_vars

\* ---- C34 ----
\* The PID file names a live daemon.
PidFileNamesLive == pidFile[1] = "pid" /\ pidFile[2] \in LiveDaemons

\* Every daemon there has been has exited.
AllDaemonsExited == LiveDaemons = {} /\ \E d \in Daemons : daemon[d].pc = "exited"

\* Client c's call of _is_server_running() returns False with this step.
CheckReturnsFalse(c) ==
    /\ client[c].pc \in {"irs_exists", "irs_read", "irs_unlink"}
    /\ client'[c].pc \notin {"irs_exists", "irs_read", "irs_kill", "irs_unlink"}
    /\ client'[c].obs.ret = "False"

\* Client c's check of lines 90-99 is over with this step.
CheckOver(c) == client[c].pc # "e_spawn" /\ client'[c].pc = "e_spawn"

\* C34: the two liveness witnesses agree: whenever the PID file names a
\* live process and the socket file exists, the process that listens on the
\* socket is the one the PID file names; and once every daemon has exited
\* and a client check has run, neither file remains.
C34_WitnessesAgree ==
    /\ [](PidFileNamesLive /\ Exists(sockFile) /\ Listener # 0 => Listener = pidFile[2])
    /\ [][\A c \in Clients :
            AllDaemonsExited =>
               /\ CheckReturnsFalse(c) => ~Exists(pidFile')
               /\ CheckOver(c) => ~Exists(sockFile')]_vars

\* ---- C35 ----
\* The byte stream a receiver reads is held as the sizes of the pieces the
\* kernel hands over, in order; after the last piece recv returns b"".
\* recv(n) takes up to n bytes of the first piece.
Take(n, segs) ==
    IF n = Head(segs) THEN Tail(segs) ELSE <<Head(segs) - n>> \o Tail(segs)

\* A read that calls recv once and takes what it got.
RecvAll_Once(need, cap, segs) ==
    IF need = 0 THEN [ok |-> TRUE, got |-> 0, rest |-> segs]
    ELSE IF segs = <<>> THEN [ok |-> FALSE, got |-> 0, rest |-> segs]
    ELSE LET n == Min(Min(need, cap), Head(segs))
         IN  [ok |-> TRUE, got |-> n, rest |-> Take(n, segs)]

\* The loops of recv_request (lines 69-74, 81-86) and _recv_response (lines
\* 147-152, 158-163): while fewer than need bytes are held, recv(min(what is
\* missing, cap)); an empty chunk raises ConnectionError.
RECURSIVE RecvAll(_, _, _)
RecvAll(need, cap, segs) ==
    IF need = 0 THEN [ok |-> TRUE, got |-> 0, rest |-> segs]
    ELSE IF segs = <<>> THEN [ok |-> FALSE, got |-> 0, rest |-> segs]
    ELSE LET n == Min(Min(need, cap), Head(segs))
             more == RecvAll(need - n, cap, Take(n, segs))
         IN  [ok |-> more.ok, got |-> n + more.got, rest |-> more.rest]

Failed(exception) == [exc |-> exception, value |-> <<>>]

\* recv_request (limit MAX_MSG_SIZE) and _recv_response (limit 65536) on a
\* stream that carries frame: the header loop, struct.unpack, the length
\* test, the body loop, json.loads. A JSON text cut short does not parse.
RecvFrame(frame, segs, limit) ==
    LET header == RecvAll(HEADER_SIZE, HEADER_SIZE, segs) IN
    IF ~header.ok THEN Failed("ConnectionError")
    ELSE IF header.got # HEADER_SIZE THEN Failed("struct.error")
    ELSE IF frame.len > limit THEN Failed("ValueError")
    ELSE LET data == RecvAll(frame.len, RECV_CHUNK, header.rest) IN
         IF ~data.ok THEN Failed("ConnectionError")
         ELSE IF data.got # frame.len \/ frame.doc.doc = "invalid"
         THEN Failed("JSONDecodeError")
         ELSE [exc |-> "", value |-> JsonLoads(frame.doc)]

Recv_Request(frame, segs) == RecvFrame(frame, segs, MAX_MSG_SIZE)
Recv_Response(frame, segs) == RecvFrame(frame, segs, 65536)

\* The dicts framed: requests, results, an error, and a request whose text
\* is so long that its body has MAX_MSG_SIZE bytes (held by its length).
FramedDicts ==
    {[text |-> PyStr(MsgCorrection)], [text |-> PyStr("")], [id |-> PyInt(1)],
     ResultDict(ClassifyMessage(Similarities(MsgCorrection))),
     ResultDict(RejectTuple), ErrorDict("empty text")}
LongRequest == [text |-> PyStr("long")]
Framed ==
    {<<data, Frame(data)>> : data \in FramedDicts}
      \cup {<<LongRequest, [Frame(LongRequest) EXCEPT !.len = MAX_MSG_SIZE,
                                                     !.got = MAX_MSG_SIZE]>>}

\* Where the pieces of a stream of total bytes may end: within the header,
\* at its end, within the body, one byte short of the end, at the end.
CutPoints(total) ==
    {n \in {1, 2, HEADER_SIZE, HEADER_SIZE + 1,
            HEADER_SIZE + (total - HEADER_SIZE) \div 2, total - 1, total} :
       n >= 1 /\ n <= total}

RECURSIVE SegsOf(_, _)
SegsOf(points, from) ==
    IF points = {} THEN <<>>
    ELSE LET m == CHOOSE x \in points : \A y \in points : x <= y
         IN  <<m - from>> \o SegsOf(points \ {m}, m)

RECURSIVE Delivered(_)
Delivered(segs) == IF segs = <<>> THEN 0 ELSE Head(segs) + Delivered(Tail(segs))

\* send_response / _send_request write a frame, the stream reaches the other
\* side in some pieces (all of it, or cut off by the end of the sender), and
\* recv_request / _recv_response reads it.
Call_Framing ==
    /\ call = NoCall
    /\ \E pair \in Framed :
       \E points \in SUBSET CutPoints(HEADER_SIZE + pair[2].len) :
       \E fn \in {"recv_request", "_recv_response"} :
         LET segs == SegsOf(points, 0)
         IN  call' = [fn |-> fn, args |-> <<pair[1], pair[2], segs>>,
                      value |-> IF fn = "recv_request"
                                THEN Recv_Request(pair[2], segs)
                                ELSE Recv_Response(pair[2], segs)]
    /\ UNCHANGED <<pidFile, sockFile, daemon, queue, client, conn, nsig>>

\* The framing functions by themselves
SpecFraming == Init /\ [][Call_Framing]_vars

CalledFraming == call.fn \in {"recv_request", "_recv_response"}

\* C35: framing round-trips under any chunking: a JSON object with a body
\* of at most 65536 bytes, framed by send_response or _send_request, is
\* decoded by recv_request or _recv_response to the same object however the
\* recv calls split the stream; a stream that ends before the header or the
\* declared body is complete raises the disconnection error, and no partial
\* message is returned.
C35_FramingRoundTrip ==
    CalledFraming =>
        LET data == call.args[1]
            frame == call.args[2]
            segs == call.args[3]
        IN  IF Delivered(segs) >= HEADER_SIZE + frame.len
            THEN call.value.exc = "" /\ call.value.value = data
            ELSE call.value.exc = "ConnectionError"

\* A frame that came in three pieces or more, the first one short of the
\* header, and was decoded; the long one among them.
C35_Witness ==
    /\ CalledFraming
    /\ Len(call.args[3]) >= 3
    /\ call.args[3][1] < HEADER_SIZE
    /\ call.args[2].len = MAX_MSG_SIZE
    /\ call.value.exc = ""

\* ---- C36 ----
\* The daemon has classified the text of the request on connection c.
Classified(c) == conn[c].produced # <<>>

KindsOfText ==
    {<<>>,
     <<"r", "e", "m", "e", "m", "b", "e", "r", ":", " ", "x">>,
     <<"P", "l", "e", "a", "s", "e">>,
     <<"n", "o", ",", " ", "u", "s", "e", " ", "X", " ", "n", "o", "t", " ", "Y">>,
     <<"n", "e", "v", "e", "r", " ", "p", "u", "s", "h", " ", "t", "o", " ", "m", "a", "i", "n">>,
     <<"p", "e", "r", "f", "e", "c", "t", ",", " ", "t", "h", "a", "n", "k", "s">>,
     <<"w", "h", "a", "t", " ", "a", " ", "d", "a", "y">>}

NextKinds ==
    \/ \E d \in Daemons :
          StartupStep(d) \/ ConnectionStep(d) \/ RequestStep(d) \/ ShutdownStep(d)
    \/ DetectStartWith(First, KindsOfText)
    \/ EnsureStep(First) \/ ClassifyStep(First)
    \/ PeerConnect(Last) \/ PeerSend(Last) \/ PeerClose(Last)

SpecKinds == Init /\ [][NextKinds]_vars

Types == {PyStr("explicit"), PyStr("auto"), PyStr("guardrail"), PyStr("positive"), PyNone}

WellFormed(t) ==
    /\ Len(t) = 5
    /\ t[1] \in Types
    /\ t[4] \in {PyStr("correction"), PyStr("positive")}
    /\ t[3][1] = "float" /\ t[3][3] >= 0 /\ t[3][3] <= 100000
    /\ t[1] = PyNone <=> t = RejectTuple

\* C37: every tuple detect_patterns returns is well formed: the type is
\* "explicit", "auto", "guardrail", "positive" or None, the sentiment is
\* "correction" or "positive", the confidence lies in [0, 1], and the type
\* is None exactly when the tuple is the reject tuple; on the regex paths,
\* on the daemon path and on every fallback path.
C37_WellFormed ==
    \A c \in Clients :
        Detected(c) => ~client[c].raised /\ WellFormed(client[c].result)

\* C37 witness: detect_patterns has returned what the daemon made of a
\* text: type "positive", sentiment "positive", a confidence above 0.
C37_Witness ==
    \E c \in Clients :
        /\ Detected(c) /\ client[c].via = "ok"
        /\ client[c].result[1] = PyStr("positive")
        /\ client[c].result[4] = PyStr("positive")
        /\ client[c].result[3][3] > 0

\* ---- C38 ----
\* Two runs of the UserPromptSubmit hook at the same time, on prompts that
\* pass the tests of lines 39-50. A run is at line 54 (pc "exists"), 56
\* ("init"), 59 ("detect"), 72-73 ("load"), 74 ("save") or has returned; it
\* holds its prompt, the tuple detect_patterns gave and the list load_queue
\* gave. The runs are held in call.args, the queue file in call.value.
\* write_text is taken as one step.
Hooks == {1, 2}

HookPrompts(p) ==
    IF p = 1 THEN {<<"r", "e", "m", "e", "m", "b", "e", "r", ":", " ", "x">>, <<"P", "l", "e", "a", "s", "e">>}
    ELSE {<<"R", "E", "M", "E", "M", "B", "E", "R", ":", " ", "y">>, <<"n", "o", ",", " ", "u", "s", "e", " ", "X", " ", "n", "o", "t", " ", "Y">>}

HookRun(chars) == [pc |-> "exists", chars |-> chars, result |-> RejectTuple, items |-> <<>>]

RunsOf(c) == c.args[1]
FileOf(c) == c.value

\* Both hooks are started.
Hooks_Start ==
    /\ call = NoCall
    /\ \E file \in QueueFiles, first \in HookPrompts(1), second \in HookPrompts(2) :
         call' = [fn |-> "capture_learning, twice",
                  args |-> <<[p \in Hooks |-> HookRun(IF p = 1 THEN first ELSE second)],
                             file>>,
                  value |-> file]
    /\ UNCHANGED <<pidFile, sockFile, daemon, queue, client, conn, nsig>>

HookAt(p, pc) == call.fn = "capture_learning, twice" /\ RunsOf(call)[p].pc = pc

HookStep(p, run, file) ==
    /\ call' = [call EXCEPT !.args[1][p] = run, !.value = file]
    /\ UNCHANGED <<pidFile, sockFile, daemon, queue, client, conn, nsig>>

\* main(), line 54: if not queue_path.exists()
Hook_QueueExists(p) ==
    /\ HookAt(p, "exists")
    /\ HookStep(p, [RunsOf(call)[p] EXCEPT
                       !.pc = IF FileOf(call).exists THEN "detect" ELSE "init"],
                FileOf(call))

\* main(), lines 55-56: queue_path.write_text("[]")
Hook_InitQueue(p) ==
    /\ HookAt(p, "init")
    /\ HookStep(p, [RunsOf(call)[p] EXCEPT !.pc = "detect"], QueueFile(<<>>))

\* main(), lines 59-62: detect_patterns(prompt); if item_type
Hook_Detect(p) ==
    /\ HookAt(p, "detect")
    /\ \E outcome \in ImportOutcomes,
          answer \in {RejectTuple, ClassifyMessage(Similarities(MsgCorrection))} :
         LET result == DetectPatterns(RunsOf(call)[p].chars, outcome, answer)
         IN  HookStep(p, [RunsOf(call)[p] EXCEPT
                             !.result = result,
                             !.pc = IF Falsy(result[1]) THEN "returned" ELSE "load"],
                      FileOf(call))

\* main(), lines 72-73: items = load_queue(); items.append(queue_item)
Hook_LoadQueue(p) ==
    /\ HookAt(p, "load")
    /\ HookStep(p, [RunsOf(call)[p] EXCEPT
                       !.pc = "save",
                       !.items = Append(IF FileOf(call).exists THEN FileOf(call).items
                                        ELSE <<>>,
                                        QueueItem(RunsOf(call)[p].chars,
                                                  RunsOf(call)[p].result))],
                FileOf(call))

\* main(), line 74: save_queue(items)
Hook_SaveQueue(p) ==
    /\ HookAt(p, "save")
    /\ HookStep(p, [RunsOf(call)[p] EXCEPT !.pc = "returned"],
                QueueFile(RunsOf(call)[p].items))

NextHooks ==
    \/ Hooks_Start
    \/ \E p \in Hooks :
         \/ Hook_QueueExists(p) \/ Hook_InitQueue(p) \/ Hook_Detect(p)
         \/ Hook_LoadQueue(p) \/ Hook_SaveQueue(p)

\* Two UserPromptSubmit hooks at the same time
SpecHooks == Init /\ [][NextHooks]_vars

Holds(items, item) == \E i \in 1..Len(items) : items[i] = item

\* C38: no captured learning is lost: when two runs of capture_learning
\* that each detect a learning have both finished, the queue file holds
\* both new items and every item it held before, in whatever order their
\* load_queue, append and save_queue steps were taken.
C38_NoLearningLost ==
    (/\ call.fn = "capture_learning, twice"
     /\ \A p \in Hooks : /\ RunsOf(call)[p].pc = "returned"
                         /\ ~Falsy(RunsOf(call)[p].result[1]))
      => /\ FileOf(call).exists
         /\ \A p \in Hooks :
               Holds(FileOf(call).items,
                     QueueItem(RunsOf(call)[p].chars, RunsOf(call)[p].result))
         /\ \A i \in 1..Len(call.args[2].items) :
               Holds(FileOf(call).items, call.args[2].items[i])

\* ---- C39 ----
\* The hook of client c is in its own call of _is_server_running (line 21).
InHookCheck(c) == client[c].kind = "hook" /\ client[c].ret = "hook"

\* That call returns True with this step.
HookCheckTrue(c) ==
    InHookCheck(c) /\ client[c].pc = "irs_kill" /\ KillProbe(client[c].pid)

\* C39: the SessionStart hook never blocks the start of a session and does
\* nothing when the server runs already: it ends with exit status 0 on every
\* path (dependencies missing, no launcher, startup timeout, any exception),
\* and when its _is_server_running() is true it returns at once, having
\* spawned no process and deleted no file.
C39_HookIsHarmless ==
    /\ [](\A c \in Clients :
            client[c].kind = "hook" /\ client[c].pc = "return" =>
               ~client[c].raised /\ client[c].result = <<PyInt(0)>>)
    /\ [][\A c \in Clients :
            /\ (InHookCheck(c) /\ client[c].pc \in {"irs_exists", "irs_read", "irs_kill"}
                /\ client'[c] # client[c])
                  => pidFile' = pidFile /\ sockFile' = sockFile /\ daemon' = daemon
            /\ (HookCheckTrue(c) /\ client'[c] # client[c])
                  => /\ client'[c].pc = "return"
                     /\ client'[c].obs.ret = "True"]_vars

\* C39 witness: a hook has found the server running and has ended with
\* status 0, the daemon alive and both files in place.
C39_Witness ==
    \E c \in Clients :
        /\ client[c].kind = "hook" /\ client[c].pc = "return"
        /\ client[c].obs.ret = "True"
        /\ client[c].result = <<PyInt(0)>>
        /\ LiveDaemons # {} /\ Exists(pidFile) /\ Exists(sockFile)

====
